---- MODULE Spec2Model ----
(***************************************************************************)
(* Scrobble engine of jfmyers9/scribbles: the play accountant              *)
(* (internal/daemon State), the eligibility checker, the state handler,    *)
(* the poller, the durable queue and the queue processor.                  *)
(*                                                                         *)
(* Time is the wall clock in whole seconds.  Every goroutine is a process  *)
(* whose steps are the critical sections of the code (one State method or  *)
(* one queue statement each); the clock may advance between any two steps. *)
(***************************************************************************)
EXTENDS Integers, Sequences, FiniteSets, TLC

(* ----------------------------- bounds ---------------------------------- *)
\* seconds by which one Tick advances the wall clock
Quantum == 15
\* number of Ticks of a behaviour
MaxTicks == 3
\* number of plays the player starts in a behaviour
MaxPlays == 2
\* number of crashes of a behaviour
MaxCrashes == 1
\* capacity of the updates channel (make(chan TrackUpdate, 10), scaled)
ChanCap == 1
\* rows a drain cycle loads (GetPending(ctx, 50), scaled)
BatchLimit == 2
\* rows in the queue database when the daemon starts
MaxRows == 3
\* largest batch handed to the scrobble functions of the clients
MaxBatch == 52
\* most parameters of a signed request
MaxParams == 3
\* rows added through the queue API in a behaviour
MaxApiRows == 2
\* number of Ticks between the calls of the queue API
MaxApiTicks == 1
\* ids a MarkScrobbledBatch call lists
MaxBatchIds == 2
\* largest track duration drawn for the rule functions (seconds)
MaxRuleDuration == 500
\* largest played time drawn for the rule functions (seconds)
MaxRulePlayed == 250

(* ------------------------- program constants --------------------------- *)
MinimumTrackDuration == 30
MaxScrobbleThreshold == 240

\* a nil *music.Track
Nil == [name |-> "nil", st |-> "stopped", dur |-> 0, rp |-> 0]
\* time.Time{}
ZeroTime == 0 - 1
\* the SQL NULL of column error, distinct from the empty string
NULL == "<NULL>"
StatePlaying == "playing"
StatePaused == "paused"
StateStopped == "stopped"
TrackNames == {"A", "B"}
TrackDuration(n) == IF n = "A" THEN 30 ELSE 60

Min(a, b) == IF a <= b THEN a ELSE b

(* ------------------------- scrobbler/rules.go -------------------------- *)
\* time.Duration(float64(trackDuration) * ScrobblePercentage): the product
\* with 0.5 is exact and the conversion truncates; only reached with a
\* duration of at least MinimumTrackDuration
ScaledThreshold(trackDuration) == trackDuration \div 2

\* a bug ShouldScrobble could have: "longer than 30 seconds" taken strictly
ShouldScrobble_Strict(trackDuration, playedDuration) ==
    IF trackDuration <= MinimumTrackDuration
    THEN FALSE
    ELSE LET t == ScaledThreshold(trackDuration)
             threshold == IF t > MaxScrobbleThreshold THEN MaxScrobbleThreshold ELSE t
         IN playedDuration >= threshold

ShouldScrobble(trackDuration, playedDuration) ==
    IF trackDuration < MinimumTrackDuration
    THEN FALSE
    ELSE LET t == ScaledThreshold(trackDuration)
             threshold == IF t > MaxScrobbleThreshold THEN MaxScrobbleThreshold ELSE t
         IN playedDuration >= threshold

ScrobbleThreshold(trackDuration) ==
    IF trackDuration < MinimumTrackDuration
    THEN 0 - 1
    ELSE LET t == ScaledThreshold(trackDuration)
         IN IF t > MaxScrobbleThreshold THEN MaxScrobbleThreshold ELSE t

(* --------------------------- daemon/state.go --------------------------- *)
\* TrackState{}: the zero value
EmptyTrackState ==
    [Track |-> Nil, StartTime |-> ZeroTime, Scrobbled |-> FALSE,
     PausedAt |-> ZeroTime, TotalPlayTime |-> 0]

NewTrackState(track, t) ==
    [Track |-> track, StartTime |-> t, Scrobbled |-> FALSE,
     PausedAt |-> ZeroTime, TotalPlayTime |-> 0]

isSameTrack(t1, t2) ==
    IF t1 = Nil \/ t2 = Nil THEN FALSE ELSE t1.name = t2.name

\* State.SetTrack: the stored Track is the pointer of this observation, so
\* its State field keeps the value observed now
SetTrack(track, t) == NewTrackState(track, t)

\* State.UpdatePosition, the value of s.current afterwards
UpdatePosition(cur, track, t) ==
    IF cur.Track = Nil THEN NewTrackState(track, t)
    ELSE IF ~isSameTrack(cur.Track, track) THEN NewTrackState(track, t)
    ELSE IF track.st = StatePlaying
         THEN IF cur.PausedAt # ZeroTime
              THEN [cur EXCEPT !.TotalPlayTime = @ + (cur.PausedAt - cur.StartTime),
                               !.StartTime = t,
                               !.PausedAt = ZeroTime]
              ELSE cur
    ELSE IF track.st = StatePaused
         THEN IF cur.PausedAt = ZeroTime
              THEN [cur EXCEPT !.PausedAt = t]
              ELSE cur
    ELSE EmptyTrackState

\* State.MarkScrobbled
MarkScrobbledState(cur) == [cur EXCEPT !.Scrobbled = TRUE]

\* State.GetPlayedDuration at wall-clock t
GetPlayedDuration(cur, t) ==
    IF cur.PausedAt # ZeroTime
    THEN cur.TotalPlayTime + (cur.PausedAt - cur.StartTime)
    ELSE IF cur.Track # Nil /\ cur.Track.st = StatePlaying
         THEN cur.TotalPlayTime + (t - cur.StartTime)
         ELSE cur.TotalPlayTime

\* State.Reset
ResetState == EmptyTrackState

\* State.persist: the persistedState written to the state file
persist(cur) ==
    [track |-> cur.Track, start_time |-> cur.StartTime, scrobbled |-> cur.Scrobbled,
     paused_at |-> cur.PausedAt, total_play_time |-> cur.TotalPlayTime]

\* State.restore: TrackState(ps)
restore(ps) ==
    [Track |-> ps.track, StartTime |-> ps.start_time, Scrobbled |-> ps.scrobbled,
     PausedAt |-> ps.paused_at, TotalPlayTime |-> ps.total_play_time]

(* ------------------------------ state ---------------------------------- *)
VARIABLES
    now,        \* wall clock, seconds
    ticks,      \* Ticks taken so far
    player,     \* the music application: track on the deck and its play number
    updates,    \* chan TrackUpdate
    current,    \* State.current
    disk,       \* contents of the state file
    g,          \* history of the current PlayState (play identity, observed play time)
    h,          \* handleUpdates goroutine
    c,          \* checkScrobbleEligibility goroutine
    queue,      \* rows of table scrobbles, in insertion order
    nextId,     \* AUTOINCREMENT sequence
    d,          \* processQueue goroutine
    acked,      \* ids of rows the remote has acknowledged
    skipped,    \* plays discarded by a track change below their threshold
    crashes,    \* crashes so far
    rule,       \* inputs and results of the rule functions
    remote,     \* what the Last.fm endpoint does with a request
    cycle,      \* the last completed drain cycle: rows loaded, call made, outcome
    qop,        \* the last call of the queue API and what it returned
    tx,         \* the transaction of MarkScrobbledBatch in progress
    log,        \* ids ever marked submitted, ids deleted while pending
    net,        \* one operation of the Last.fm protocol client (Client.call)
    fn,         \* inputs and results of the client functions applied
    stop,       \* shutdown: the context of Daemon.run and who has seen it end
    poller      \* Poller.Run goroutine

\* the queue API caller, the endpoint and the histories of the queue
apiVars == <<remote, cycle, qop, tx, log>>

\* the protocol client, the client functions and the shutdown
netVars == <<net, fn, stop, poller>>

\* everything but the protocol client, the client functions, the shutdown
\* and the poller goroutine
daemonVarsOfRun == <<now, ticks, player, updates, current, disk, g, h, c, queue,
                     nextId, d, acked, skipped, crashes, rule, remote, cycle, qop,
                     tx, log>>

\* everything but the protocol client, the client functions and the shutdown
daemonVarsOf == <<now, ticks, player, updates, current, disk, g, h, c, queue, nextId,
                  d, acked, skipped, crashes, rule, remote, cycle, qop, tx, log, poller>>

vars == <<now, ticks, player, updates, current, disk, g, h, c, queue, nextId, d,
          acked, skipped, crashes, rule, remote, cycle, qop, tx, log, net, fn, stop,
          poller>>

daemonVars == <<now, ticks, player, updates, current, disk, g, h, c, queue, nextId,
                d, acked, skipped, crashes, remote, cycle, qop, tx, log, net, fn,
                stop, poller>>

\* err: the update last received carried an error
HIdle == [pc |-> "idle", err |-> FALSE]
CIdle == [pc |-> "idle", track |-> Nil, tplay |-> 0, pstart |-> ZeroTime, rp |-> 0]
DIdle == [pc |-> "idle", pending |-> <<>>, call |-> "none", resp |-> "none"]
\* no drain cycle has completed yet
CycleNone == [ids |-> {}, call |-> "none", resp |-> "none"]
\* the queue API has not been called since the queue was opened.  again: the
\* call repeats the call before it, which had succeeded, with the same ids
QopNone == [op |-> "none", ids |-> {}, limit |-> 0, err |-> "", rows |-> <<>>,
            msg |-> "", cutoff |-> 0, done |-> 0, again |-> FALSE]
\* no operation of the protocol client is in progress.  sk: the session key
\* of the client; i: the loop index of call; backoff: seconds of the next
\* sleep; sent: HTTP requests made; outs: what each request came to; slept:
\* seconds slept; ctxDone: the context of the operation is cancelled
NetIdle == [pc |-> "idle", sk |-> "", i |-> 0, backoff |-> 0, sent |-> 0,
            outs |-> <<>>, slept |-> 0, ctxDone |-> FALSE, result |-> "none"]
\* no client function has been applied.  op: the function; sk: the session
\* key of the client; batch: the scrobbles handed in; callErr: what
\* Client.call returns if it is reached; err, reqs: the error returned and
\* the requests made, each the scrobbles it carries
FnIdle == [pc |-> "off", op |-> "none", sk |-> "", batch |-> <<>>, callErr |-> "",
           err |-> "", reqs |-> <<>>]
\* Poller.Run has not polled yet.  pc: "start" before the poll on start,
\* "send" in the select of poll that sends the update pend, "select" in the
\* select of the loop; tick: ticker.C holds a tick
PIdle == [pc |-> "start", tick |-> FALSE, pend |-> [Track |-> Nil, Err |-> FALSE]]
\* the context of Daemon.run has not been cancelled.  exited: the goroutines
\* of run that have returned; finalRead: the processPendingScrobbles that
\* processQueue runs on ctx.Done() has called GetPending
StopNone == [cancelled |-> FALSE, exited |-> {}, finalRead |-> FALSE]
\* no transaction is open on the database connection
TxNone == [pc |-> "none", ids |-> <<>>, todo |-> <<>>, rows |-> <<>>, before |-> <<>>]
\* atKill: the ids added and the ids marked submitted when the process was
\* last killed
\* returned: the ids Add has returned, in call order
\* addFailed: the plays for which an Add of the checker has failed
LogInit == [marked |-> {}, purged |-> {}, atKill |-> [added |-> {}, marked |-> {}],
            returned |-> <<>>, addFailed |-> {}]
GInit == [play |-> 0, lastSt |-> StateStopped, lastRp |-> 0, played |-> 0,
          rpPlayed |-> 0, start |-> ZeroTime]
RuleIdle == [pc |-> "off", d |-> 0, p |-> 0, should |-> FALSE, threshold |-> 0]

Init ==
    /\ now = 0
    /\ ticks = 0
    /\ player = [name |-> "nil", rp |-> 0]
    /\ updates = <<>>
    /\ current = EmptyTrackState
    /\ disk = persist(EmptyTrackState)
    /\ g = GInit
    /\ h = HIdle
    /\ c = CIdle
    /\ queue = <<>>
    /\ nextId = 1
    /\ d = DIdle
    /\ acked = {}
    /\ skipped = {}
    /\ crashes = 0
    /\ remote = "erratic"
    /\ cycle = CycleNone
    /\ qop = QopNone
    /\ tx = TxNone
    /\ log = LogInit
    /\ net = NetIdle
    /\ fn = FnIdle
    /\ stop = StopNone
    /\ poller = PIdle
    /\ rule = RuleIdle

(* ------------------------------ clock ---------------------------------- *)
\* the clock advances; the history counts the time during which the last
\* observation applied for the current play was Playing
Tick ==
    /\ ticks < MaxTicks
    /\ ticks' = ticks + 1
    /\ now' = now + Quantum
    /\ g' = IF current.Track # Nil /\ g.lastSt = StatePlaying
            THEN [g EXCEPT !.played = @ + Quantum, !.rpPlayed = @ + Quantum]
            ELSE g
    /\ UNCHANGED <<player, updates, current, disk, h, c, queue, nextId, d, acked,
                   skipped, crashes, rule, apiVars, netVars>>

(* --------------------------- daemon/poller.go -------------------------- *)
\* Poller.poll, GetCurrentTrack failed: an error update is sent
PollError ==
    /\ Len(updates) < ChanCap
    /\ updates' = Append(updates, [Track |-> Nil, Err |-> TRUE])
    /\ UNCHANGED <<now, ticks, player, current, disk, g, h, c, queue, nextId, d,
                   acked, skipped, crashes, rule, apiVars, netVars>>

\* Poller.poll, GetCurrentTrack returned nil: nothing on the deck
PollNoTrack ==
    /\ Len(updates) < ChanCap
    /\ updates' = Append(updates, [Track |-> Nil, Err |-> FALSE])
    /\ player' = [player EXCEPT !.name = "nil"]
    /\ UNCHANGED <<now, ticks, current, disk, g, h, c, queue, nextId, d, acked,
                   skipped, crashes, rule, apiVars, netVars>>

\* Poller.poll, GetCurrentTrack returned a track.  fresh: the player started
\* this track from its beginning since the previous observation (a new play);
\* another track than the previous one is always a new play
PollTrack(name, st, fresh) ==
    /\ Len(updates) < ChanCap
    /\ (name # player.name) => fresh
    /\ (st = StateStopped) => ~fresh
    /\ fresh => player.rp < MaxPlays
    /\ LET rp == IF fresh THEN player.rp + 1 ELSE player.rp
           track == [name |-> name, st |-> st, dur |-> TrackDuration(name), rp |-> rp]
       IN /\ updates' = Append(updates, [Track |-> track, Err |-> FALSE])
          /\ player' = [name |-> IF st = StateStopped THEN "nil" ELSE name, rp |-> rp]
    /\ UNCHANGED <<now, ticks, current, disk, g, h, c, queue, nextId, d, acked,
                   skipped, crashes, rule, apiVars, netVars>>

(* --------------------------- daemon/daemon.go -------------------------- *)
\* history of a play initialised by the observation track at the current instant
NewPlay(track) ==
    [play |-> track.rp, lastSt |-> track.st, lastRp |-> track.rp, played |-> 0,
     rpPlayed |-> 0, start |-> now]

\* history after an observation of the current play has been applied
SamePlay(track) ==
    IF track.rp = g.lastRp
    THEN [g EXCEPT !.lastSt = track.st]
    ELSE [g EXCEPT !.lastSt = track.st, !.lastRp = track.rp, !.rpPlayed = 0]

\* a bug handleUpdates could have: an update with an error is taken for the
\* player having stopped
ErrorUpdate_Reset(cur) == ResetState

\* handleUpdates, update.Err != nil: the error is logged and the loop
\* continues; the value of s.current afterwards
ErrorUpdate(cur) == cur

\* handleUpdates receives one update.  An error update is logged and
\* dropped.  Otherwise handleTrackUpdate: GetState, then Reset, SetTrack or
\* UpdatePosition.  The lock is released between GetState and the mutation,
\* but the branch taken depends on current.Track only, which no other
\* goroutine writes, so the two critical sections are one step here.
H_Update ==
    /\ h.pc = "idle"
    /\ updates # <<>>
    /\ updates' = Tail(updates)
    /\ LET update == Head(updates)
           track == update.Track
           currentState == current
       IN IF update.Err
          THEN /\ current' = ErrorUpdate(current)
               /\ h' = [pc |-> "idle", err |-> TRUE]
               /\ UNCHANGED <<disk, g, skipped>>
          ELSE IF track = Nil \/ track.st = StateStopped
          THEN /\ IF currentState.Track # Nil
                  THEN /\ current' = ResetState
                       /\ disk' = persist(ResetState)
                       /\ g' = [g EXCEPT !.lastSt = StateStopped]
                  ELSE UNCHANGED <<current, disk, g>>
               /\ h' = HIdle
               /\ UNCHANGED skipped
          ELSE IF currentState.Track = Nil \/ ~isSameTrack(currentState.Track, track)
          THEN /\ current' = SetTrack(track, now)
               /\ disk' = persist(SetTrack(track, now))
               /\ g' = NewPlay(track)
               /\ skipped' = IF /\ current.Track # Nil
                                /\ ~ShouldScrobble(current.Track.dur,
                                                   GetPlayedDuration(current, now))
                             THEN skipped \cup {g.play}
                             ELSE skipped
               /\ h' = [pc |-> "nowplaying", err |-> FALSE]
          ELSE /\ current' = UpdatePosition(current, track, now)
               /\ disk' = persist(UpdatePosition(current, track, now))
               /\ g' = IF current.Track = Nil \/ ~isSameTrack(current.Track, track)
                       THEN NewPlay(track)
                       ELSE SamePlay(track)
               /\ h' = HIdle
               /\ UNCHANGED skipped
    /\ UNCHANGED <<now, ticks, player, c, queue, nextId, d, acked, crashes, rule, apiVars, netVars>>

\* handleTrackUpdate after SetTrack: d.scrobble.UpdateNowPlaying returns;
\* its error is logged only
H_NowPlaying ==
    /\ h.pc = "nowplaying"
    /\ h' = HIdle
    /\ UNCHANGED <<now, ticks, player, updates, current, disk, g, c, queue, nextId,
                   d, acked, skipped, crashes, rule, apiVars, netVars>>

\* a bug checkAndScrobble could have: the scrobbled flag is not consulted
NothingToCheck_NoFlag(state) == state.Track = Nil

\* checkAndScrobble: "No track or already scrobbled"
NothingToCheck(state) == state.Track = Nil \/ state.Scrobbled

\* checkAndScrobble: state := d.state.GetState(), return when there is no
\* track or the play is already scrobbled.  Of the copy only Track is read
\* afterwards.  pstart and rp record, for the entry to come, when the copied
\* play started and which play of the player was last observed.
C_GetState ==
    /\ c.pc = "idle"
    /\ c' = IF NothingToCheck(current)
            THEN CIdle
            ELSE [pc |-> "played", track |-> current.Track, tplay |-> 0,
                  pstart |-> g.start, rp |-> g.lastRp]
    /\ UNCHANGED <<now, ticks, player, updates, current, disk, g, h, queue, nextId,
                   d, acked, skipped, crashes, rule, apiVars, netVars>>

\* checkAndScrobble: playedDuration := d.state.GetPlayedDuration(), tested
\* against the duration of the copied track.  tplay records the play whose
\* elapsed time was read.
C_GetPlayed ==
    /\ c.pc = "played"
    /\ c' = IF ShouldScrobble(c.track.dur, GetPlayedDuration(current, now))
            THEN [c EXCEPT !.pc = "add", !.tplay = g.play]
            ELSE CIdle
    /\ UNCHANGED <<now, ticks, player, updates, current, disk, g, h, queue, nextId,
                   d, acked, skipped, crashes, rule, apiVars, netVars>>

\* the scrobbler.Scrobble checkAndScrobble builds: timestamp := time.Now()
BuildScrobble(track, t) ==
    [Track |-> track.name, Duration |-> track.dur, Timestamp |-> t]

\* the row Queue.Add inserts; Timestamp.Unix() and Duration.Seconds() keep
\* whole seconds, the unit of the model.  hist is the history of the entry.
NewRow(id, scrobble, hist) ==
    [id |-> id, name |-> scrobble.Track, dur |-> scrobble.Duration,
     ts |-> scrobble.Timestamp, scrobbled |-> FALSE, err |-> NULL,
     play |-> hist.play, from |-> hist.from, tplay |-> hist.tplay,
     pstart |-> hist.pstart, rp |-> hist.rp]

\* history of the entry the checker is about to insert.  The entry counts
\* for the play that is current at the insert when that is a play of the
\* track it names (play, pstart, rp), and otherwise for the play the track
\* was copied from; from is the copied play and tplay the play whose elapsed
\* time was tested.
EntryHistory ==
    IF current.Track # Nil /\ isSameTrack(current.Track, c.track)
    THEN [play |-> g.play, from |-> c.track.rp, tplay |-> c.tplay,
          pstart |-> g.start, rp |-> g.lastRp]
    ELSE [play |-> c.track.rp, from |-> c.track.rp, tplay |-> c.tplay,
          pstart |-> c.pstart, rp |-> c.rp]

\* a bug checkAndScrobble could have: the error of d.queue.Add is ignored
\* and the play is marked all the same
C_Add_ErrIgnored ==
    /\ c.pc = "add"
    /\ \E ok \in BOOLEAN :
          IF ok
          THEN /\ queue' = Append(queue,
                      NewRow(nextId, BuildScrobble(c.track, now), EntryHistory))
               /\ nextId' = nextId + 1
               /\ c' = [c EXCEPT !.pc = "mark"]
               /\ log' = log
          ELSE /\ c' = [c EXCEPT !.pc = "mark"]
               /\ log' = [log EXCEPT !.addFailed = @ \cup {EntryHistory.play}]
               /\ UNCHANGED <<queue, nextId>>
    /\ UNCHANGED <<now, ticks, player, updates, current, disk, g, h, d, acked,
                   skipped, crashes, rule, remote, cycle, qop, tx, netVars>>

\* checkAndScrobble: d.queue.Add; on an error the check returns
C_Add ==
    /\ c.pc = "add"
    /\ \E ok \in BOOLEAN :
          IF ok
          THEN /\ queue' = Append(queue,
                      NewRow(nextId, BuildScrobble(c.track, now), EntryHistory))
               /\ nextId' = nextId + 1
               /\ c' = [c EXCEPT !.pc = "mark"]
               /\ log' = log
          ELSE /\ c' = CIdle
               /\ log' = [log EXCEPT !.addFailed = @ \cup {EntryHistory.play}]
               /\ UNCHANGED <<queue, nextId>>
    /\ UNCHANGED <<now, ticks, player, updates, current, disk, g, h, d, acked,
                   skipped, crashes, rule, remote, cycle, qop, tx, netVars>>

\* checkAndScrobble: d.state.MarkScrobbled()
C_Mark ==
    /\ c.pc = "mark"
    /\ current' = MarkScrobbledState(current)
    /\ disk' = persist(MarkScrobbledState(current))
    /\ c' = CIdle
    /\ UNCHANGED <<now, ticks, player, updates, g, h, queue, nextId, d, acked,
                   skipped, crashes, rule, apiVars, netVars>>

(* -------------------------- scrobbler/queue.go ------------------------- *)
\* a bug GetPending could have: ORDER BY timestamp DESC, as in GetAll
Before_Desc(r1, r2) == r1.ts > r2.ts \/ (r1.ts = r2.ts /\ r1.id < r2.id)

\* ORDER BY timestamp ASC; rows of equal timestamp in rowid order
Before(r1, r2) == r1.ts < r2.ts \/ (r1.ts = r2.ts /\ r1.id < r2.id)

RECURSIVE OrderByTimestamp(_)
OrderByTimestamp(rows) ==
    IF rows = {} THEN <<>>
    ELSE LET first == CHOOSE r \in rows : \A o \in rows \ {r} : Before(r, o)
         IN <<first>> \o OrderByTimestamp(rows \ {first})

\* COALESCE(error, '')
Coalesce(e) == IF e = NULL THEN "" ELSE e

\* Queue.GetPending: SELECT ..., COALESCE(error, '') WHERE scrobbled = 0
\* ORDER BY timestamp ASC [LIMIT limit]
GetPending(q, limit) ==
    LET rows == {[q[i] EXCEPT !.err = Coalesce(@)] :
                    i \in {j \in DOMAIN q : ~q[j].scrobbled}}
        sorted == OrderByTimestamp(rows)
    IN IF limit > 0 /\ Len(sorted) > limit THEN SubSeq(sorted, 1, limit) ELSE sorted

\* Queue.MarkScrobbled: SET scrobbled = 1, error = NULL WHERE id = ?
MarkScrobbled(q, id) ==
    [i \in DOMAIN q |->
        IF q[i].id = id THEN [q[i] EXCEPT !.scrobbled = TRUE, !.err = NULL] ELSE q[i]]

\* Queue.MarkScrobbledBatch: the same update for every id, one transaction
MarkScrobbledBatch(q, ids) ==
    [i \in DOMAIN q |->
        IF q[i].id \in ids THEN [q[i] EXCEPT !.scrobbled = TRUE, !.err = NULL] ELSE q[i]]

\* a bug MarkError could have: the WHERE clause is missing
MarkError_AllRows(q, id, errMsg) ==
    [i \in DOMAIN q |-> [q[i] EXCEPT !.err = errMsg]]

\* Queue.MarkError: SET error = ? WHERE id = ?
MarkError(q, id, errMsg) ==
    [i \in DOMAIN q |-> IF q[i].id = id THEN [q[i] EXCEPT !.err = errMsg] ELSE q[i]]

\* a bug the loop over a failed batch could have: only the first row of the
\* batch gets the error
MarkErrorAll_FirstOnly(q, ids, errMsg) ==
    [i \in DOMAIN q |->
        IF q[i].id \in ids /\ (\A o \in ids : q[i].id <= o)
        THEN [q[i] EXCEPT !.err = errMsg] ELSE q[i]]

\* the loop of MarkError calls over a failed batch
MarkErrorAll(q, ids, errMsg) ==
    [i \in DOMAIN q |-> IF q[i].id \in ids THEN [q[i] EXCEPT !.err = errMsg] ELSE q[i]]

Ids(rows) == {rows[i].id : i \in DOMAIN rows}

\* Last.fm's acceptance window, 14 * 24 * time.Hour, in seconds
TwoWeeks == 14 * 24 * 3600

\* a bug Cleanup could have: the condition scrobbled = 1 is missing
Cleanup_AnyRow(q, t, maxAge) ==
    LET cutoff == t - maxAge
        Kept(r) == ~(r.ts < cutoff)
    IN SelectSeq(q, Kept)

\* Queue.Cleanup at wall-clock t: DELETE WHERE scrobbled = 1 AND timestamp < ?
Cleanup(q, t, maxAge) ==
    LET cutoff == t - maxAge
        Kept(r) == ~(r.scrobbled /\ r.ts < cutoff)
    IN SelectSeq(q, Kept)

\* Queue.CleanupOldFailed at wall-clock t: DELETE WHERE scrobbled = 0 AND
\* error IS NOT NULL AND timestamp < ?
CleanupOldFailed(q, t) ==
    LET twoWeeksAgo == t - TwoWeeks
        Kept(r) == ~(~r.scrobbled /\ r.err # NULL /\ r.ts < twoWeeksAgo)
    IN SelectSeq(q, Kept)

\* the histories of the queue after a statement has turned q1 into q2: the
\* ids of rows ever marked submitted, and of rows deleted while pending
LogOf(lg, q1, q2) ==
    [lg EXCEPT
       !.marked = @ \cup {q2[i].id : i \in {j \in DOMAIN q2 : q2[j].scrobbled}},
       !.purged = @ \cup ({q1[i].id : i \in {j \in DOMAIN q1 : ~q1[j].scrobbled}}
                              \ Ids(q2))]

(* --------------------- daemon.go: the queue processor ------------------ *)
\* processPendingScrobbles: d.queue.GetPending(ctx, 50); nothing pending ends
\* the cycle
D_Load ==
    /\ d.pc = "idle"
    /\ LET pending == GetPending(queue, BatchLimit)
       IN d' = IF Len(pending) = 0
               THEN DIdle
               ELSE [pc |-> "call", pending |-> pending, call |-> "none",
                     resp |-> "none"]
    /\ UNCHANGED <<now, ticks, player, updates, current, disk, g, h, c, queue, nextId,
                   acked, skipped, crashes, rule, apiVars, netVars>>

\* the outcomes of scrobbler.Client.ScrobbleTrack / ScrobbleBatch:
\*   "ok"      the remote answered status ok with ignored = 0: nil
\*   "ignored" the remote answered status ok with ignored > 0: an error
\*   "failed"  no session key, network or API error after the retries: an error
ScrobbleOutcomes == {"ok", "ignored", "failed"}

\* the error value the scrobbler client returns for an outcome ("" is nil)
ScrobbleError(outcome) ==
    IF outcome = "ok" THEN ""
    ELSE IF outcome = "ignored" THEN "ignored by Last.fm"
    ELSE "failed to scrobble"

\* what the endpoint can do with a request: unreachable, every request
\* fails; accepting, every request is answered with status ok
Responses(r) ==
    IF r = "unreachable" THEN {"failed"}
    ELSE IF r = "accepting" THEN {"ok", "ignored"}
    ELSE ScrobbleOutcomes

\* what the endpoint can do with a request for the rows pending: an
\* endpoint that rejects track B for good answers a request that holds
\* such a row with ignored > 0 or with an error, any other with status ok
RemoteAnswers(r, pending) ==
    IF r = "rejectsB"
    THEN IF \E i \in DOMAIN pending : pending[i].name = "B"
         THEN {"ignored", "failed"}
         ELSE {"ok"}
    ELSE Responses(r)

\* processPendingScrobbles: ScrobbleTrack for one row, ScrobbleBatch for more;
\* the remote acknowledges the rows of a request it answers with status ok
D_Call ==
    /\ d.pc = "call"
    /\ \E outcome \in RemoteAnswers(remote, d.pending) :
          /\ d' = [d EXCEPT !.pc = "mark", !.resp = outcome,
                            !.call = IF Len(d.pending) = 1 THEN "single" ELSE "batch"]
          /\ acked' = IF outcome \in {"ok", "ignored"}
                      THEN acked \cup Ids(d.pending)
                      ELSE acked
    /\ UNCHANGED <<now, ticks, player, updates, current, disk, g, h, c, queue, nextId,
                   skipped, crashes, rule, apiVars, netVars>>

\* a bug processPendingScrobbles could have: the rows are marked submitted
\* whatever the call returned
RecordResult_IgnoreErr(q, pending, err) ==
    IF Len(pending) = 1
    THEN MarkScrobbled(q, pending[1].id)
    ELSE MarkScrobbledBatch(q, Ids(pending))

\* the queue after processPendingScrobbles has recorded the result err of
\* the call for the loaded rows
RecordResult(q, pending, err) ==
    IF Len(pending) = 1
    THEN IF err # ""
         THEN MarkError(q, pending[1].id, err)
         ELSE MarkScrobbled(q, pending[1].id)
    ELSE IF err # ""
         THEN MarkErrorAll(q, Ids(pending), err)
         ELSE MarkScrobbledBatch(q, Ids(pending))

\* processPendingScrobbles: MarkError / MarkScrobbled / MarkScrobbledBatch
D_Mark ==
    /\ d.pc = "mark"
    /\ queue' = RecordResult(queue, d.pending, ScrobbleError(d.resp))
    /\ d' = DIdle
    /\ cycle' = [ids |-> Ids(d.pending), call |-> d.call, resp |-> d.resp]
    /\ log' = LogOf(log, queue, queue')
    /\ UNCHANGED <<now, ticks, player, updates, current, disk, g, h, c, nextId,
                   acked, skipped, crashes, rule, remote, qop, tx, netVars>>

(* ------------------------- crash and restart --------------------------- *)
\* a bug NewQueue could have: the database is opened in memory and a restart
\* begins with an empty table
Crash_QueueInMemory ==
    /\ crashes < MaxCrashes
    /\ crashes' = crashes + 1
    /\ current' = restore(disk)
    /\ updates' = <<>>
    /\ h' = HIdle
    /\ c' = CIdle
    /\ d' = DIdle
    /\ qop' = QopNone
    /\ tx' = TxNone
    /\ queue' = <<>>
    /\ log' = [log EXCEPT !.atKill = [added |-> 1..(nextId - 1), marked |-> log.marked]]
    /\ UNCHANGED <<now, ticks, player, disk, g, nextId, acked, skipped, rule,
                   remote, cycle, netVars>>

\* the process dies and is started again: goroutines and the channel are
\* gone, an open transaction is rolled back, NewState restores State.current
\* from the state file, NewQueue opens the database file with the rows
\* committed to it
Crash ==
    /\ crashes < MaxCrashes
    /\ crashes' = crashes + 1
    /\ current' = restore(disk)
    /\ updates' = <<>>
    /\ h' = HIdle
    /\ c' = CIdle
    /\ d' = DIdle
    /\ qop' = QopNone
    /\ tx' = TxNone
    /\ log' = [log EXCEPT !.atKill = [added |-> 1..(nextId - 1), marked |-> log.marked]]
    /\ UNCHANGED <<now, ticks, player, disk, g, queue, nextId, acked, skipped, rule,
                   remote, cycle, netVars>>

\* the process dies, is down for a quantum and is started again as in
\* Crash; the time it was down is no observed play time
Downtime ==
    /\ crashes < MaxCrashes
    /\ crashes' = crashes + 1
    /\ now' = now + Quantum
    /\ current' = restore(disk)
    /\ updates' = <<>>
    /\ h' = HIdle
    /\ c' = CIdle
    /\ d' = DIdle
    /\ qop' = QopNone
    /\ tx' = TxNone
    /\ log' = [log EXCEPT !.atKill = [added |-> 1..(nextId - 1), marked |-> log.marked]]
    /\ UNCHANGED <<ticks, player, disk, g, queue, nextId, acked, skipped, rule,
                   remote, cycle, netVars>>

(* ------------------------- the rule functions -------------------------- *)
\* one application of ShouldScrobble and ScrobbleThreshold to the inputs
RuleApply ==
    /\ rule.pc = "ready"
    /\ rule' = [rule EXCEPT !.pc = "done",
                            !.should = ShouldScrobble(rule.d, rule.p),
                            !.threshold = ScrobbleThreshold(rule.d)]
    /\ UNCHANGED daemonVars

InitRules ==
    /\ now = 0
    /\ ticks = 0
    /\ player = [name |-> "nil", rp |-> 0]
    /\ updates = <<>>
    /\ current = EmptyTrackState
    /\ disk = persist(EmptyTrackState)
    /\ g = GInit
    /\ h = HIdle
    /\ c = CIdle
    /\ queue = <<>>
    /\ nextId = 1
    /\ d = DIdle
    /\ acked = {}
    /\ skipped = {}
    /\ crashes = 0
    /\ remote = "erratic"
    /\ cycle = CycleNone
    /\ qop = QopNone
    /\ tx = TxNone
    /\ log = LogInit
    /\ net = NetIdle
    /\ fn = FnIdle
    /\ stop = StopNone
    /\ poller = PIdle
    /\ \E dur \in 0..MaxRuleDuration, p \in 0..MaxRulePlayed :
          rule = [pc |-> "ready", d |-> dur, p |-> p, should |-> FALSE, threshold |-> 0]

NextRules == RuleApply

SpecRules == InitRules /\ [][NextRules]_vars

(* ---------------------------- the queue API ---------------------------- *)
\* a row that no play of the player model stands behind
NoHistory == [play |-> 0, from |-> 0, tplay |-> 0, pstart |-> ZeroTime, rp |-> 0]

\* a bug the schema could have: INTEGER PRIMARY KEY without AUTOINCREMENT,
\* where the rowid is one more than the largest rowid in the table
RowId_MaxPlusOne(q, next) ==
    IF q = <<>> THEN 1
    ELSE 1 + (CHOOSE m \in Ids(q) : \A o \in Ids(q) : o <= m)

\* id INTEGER PRIMARY KEY AUTOINCREMENT: the rowid of an inserted row is one
\* more than the largest rowid the table has ever held (next)
RowId(q, next) == next

\* Queue.Add called with a scrobble of the given track and timestamp, by any
\* task: one INSERT statement, which waits for the one connection of the
\* pool, and result.LastInsertId() of that statement
Q_Add(name, ts) ==
    /\ tx.pc = "none"
    /\ nextId <= MaxRows
    /\ LET id == RowId(queue, nextId)
       IN /\ queue' = Append(queue,
                 NewRow(id, [Track |-> name, Duration |-> TrackDuration(name),
                             Timestamp |-> ts], NoHistory))
          /\ nextId' = id + 1
          /\ qop' = [QopNone EXCEPT !.op = "Add", !.ids = {id}]
          /\ log' = [log EXCEPT !.returned = Append(@, id)]
    /\ UNCHANGED <<now, ticks, player, updates, current, disk, g, h, c, d, acked,
                   skipped, crashes, rule, remote, cycle, tx, netVars>>

\* a bug MarkScrobbled could have: WHERE id = ? AND scrobbled = 0, so that a
\* row already marked counts as not found
MarkScrobbledErr_PendingOnly(q, id) ==
    IF \E i \in DOMAIN q : q[i].id = id /\ ~q[i].scrobbled THEN "" ELSE "not found"

\* Queue.MarkScrobbled: the error returned, rows == 0 is "not found"
MarkScrobbledErr(q, id) ==
    IF \E i \in DOMAIN q : q[i].id = id THEN "" ELSE "not found"

\* Queue.MarkScrobbled(id)
Q_MarkScrobbled(id) ==
    /\ tx.pc = "none"
    /\ queue' = MarkScrobbled(queue, id)
    /\ qop' = [QopNone EXCEPT !.op = "MarkScrobbled", !.ids = {id},
                              !.err = MarkScrobbledErr(queue, id),
                              !.again = /\ qop.op = "MarkScrobbled"
                                        /\ qop.ids = {id}
                                        /\ qop.err = ""]
    /\ log' = LogOf(log, queue, queue')
    /\ UNCHANGED <<now, ticks, player, updates, current, disk, g, h, c, nextId, d,
                   acked, skipped, crashes, rule, remote, cycle, tx, netVars>>

\* Queue.MarkError(id, errMsg): an id that matches no row is an error
Q_MarkError(id, errMsg) ==
    /\ tx.pc = "none"
    /\ queue' = MarkError(queue, id, errMsg)
    /\ qop' = [QopNone EXCEPT !.op = "MarkError", !.ids = {id}, !.msg = errMsg,
                              !.err = IF id \in Ids(queue) THEN "" ELSE "not found"]
    /\ UNCHANGED <<now, ticks, player, updates, current, disk, g, h, c, nextId, d,
                   acked, skipped, crashes, rule, remote, cycle, tx, log, netVars>>

\* Queue.GetPending(limit).  The query reads committed rows only, also while
\* a transaction is open on another connection to the database file.
Q_GetPending(limit) ==
    /\ qop' = [QopNone EXCEPT !.op = "GetPending", !.limit = limit,
                              !.rows = GetPending(queue, limit)]
    /\ UNCHANGED <<now, ticks, player, updates, current, disk, g, h, c, queue, nextId,
                   d, acked, skipped, crashes, rule, remote, cycle, tx, log, netVars>>

\* Queue.Cleanup(maxAge); qop.ids are the ids of the deleted rows
Q_Cleanup(maxAge) ==
    /\ tx.pc = "none"
    /\ queue' = Cleanup(queue, now, maxAge)
    /\ qop' = [QopNone EXCEPT !.op = "Cleanup", !.cutoff = now - maxAge,
                              !.ids = Ids(queue) \ Ids(queue')]
    /\ log' = LogOf(log, queue, queue')
    /\ UNCHANGED <<now, ticks, player, updates, current, disk, g, h, c, nextId, d,
                   acked, skipped, crashes, rule, remote, cycle, tx, netVars>>

\* Queue.CleanupOldFailed(); qop.ids are the ids of the deleted rows
Q_CleanupOldFailed ==
    /\ tx.pc = "none"
    /\ queue' = CleanupOldFailed(queue, now)
    /\ qop' = [QopNone EXCEPT !.op = "CleanupOldFailed", !.cutoff = now - TwoWeeks,
                              !.ids = Ids(queue) \ Ids(queue')]
    /\ log' = LogOf(log, queue, queue')
    /\ UNCHANGED <<now, ticks, player, updates, current, disk, g, h, c, nextId, d,
                   acked, skipped, crashes, rule, remote, cycle, tx, netVars>>

(* ---------------- Queue.MarkScrobbledBatch, step by step --------------- *)
\* a bug MarkScrobbledBatch could have: the statement runs on the database
\* outside the transaction and is committed at once
TxExec_AutoCommit(st, id) ==
    [db |-> MarkScrobbled(st.db, id), rows |-> MarkScrobbled(st.rows, id)]

\* stmt.ExecContext(ctx, id) on the prepared statement of the transaction:
\* db are the committed rows, rows the rows as the transaction sees them
TxExec(st, id) ==
    [db |-> st.db, rows |-> MarkScrobbled(st.rows, id)]

\* MarkScrobbledBatch(ids): no ids, nothing to do; otherwise BeginTx takes
\* the connection
B_Begin(ids) ==
    /\ tx.pc = "none"
    /\ IF Len(ids) = 0
       THEN /\ qop' = [QopNone EXCEPT !.op = "MarkScrobbledBatch"]
            /\ tx' = tx
       ELSE /\ tx' = [pc |-> "open", ids |-> ids, todo |-> ids, rows |-> queue,
                      before |-> queue]
            /\ qop' = qop
    /\ UNCHANGED <<now, ticks, player, updates, current, disk, g, h, c, queue, nextId,
                   d, acked, skipped, crashes, rule, remote, cycle, log, netVars>>

\* the call returns err without a commit: the deferred tx.Rollback() runs
B_Return(errMsg) ==
    /\ qop' = [QopNone EXCEPT !.op = "MarkScrobbledBatch",
                              !.ids = {tx.ids[i] : i \in DOMAIN tx.ids},
                              !.err = errMsg,
                              !.done = Len(tx.ids) - Len(tx.todo),
                              !.again = /\ qop.op = "MarkScrobbledBatch"
                                        /\ qop.ids = {tx.ids[i] : i \in DOMAIN tx.ids}
                                        /\ qop.err = ""]
    /\ tx' = TxNone

\* the loop body: the statement is executed for the next id, or fails
B_Exec ==
    /\ tx.pc = "open"
    /\ tx.todo # <<>>
    /\ \E ok \in BOOLEAN :
          IF ok
          THEN LET st == TxExec([db |-> queue, rows |-> tx.rows], Head(tx.todo))
               IN /\ queue' = st.db
                  /\ tx' = [tx EXCEPT !.rows = st.rows, !.todo = Tail(@)]
                  /\ qop' = qop
          ELSE /\ B_Return("failed to mark scrobble")
               /\ queue' = queue
    /\ log' = LogOf(log, queue, queue')
    /\ UNCHANGED <<now, ticks, player, updates, current, disk, g, h, c, nextId, d,
                   acked, skipped, crashes, rule, remote, cycle, netVars>>

\* tx.Commit(): the rows of the transaction become the committed rows, or
\* the commit fails and nothing does
B_Commit ==
    /\ tx.pc = "open"
    /\ tx.todo = <<>>
    /\ \E ok \in BOOLEAN :
          IF ok
          THEN /\ B_Return("")
               /\ queue' = tx.rows
          ELSE /\ B_Return("failed to commit transaction")
               /\ queue' = queue
    /\ log' = LogOf(log, queue, queue')
    /\ UNCHANGED <<now, ticks, player, updates, current, disk, g, h, c, nextId, d,
                   acked, skipped, crashes, rule, remote, cycle, netVars>>

(* ------------------------- the queue API alone ------------------------- *)
\* error texts MarkError is called with
ErrorTexts == {"", ScrobbleError("failed")}
\* the maxAge arguments of Cleanup
CleanupAges == {0, TwoWeeks}
\* the timestamps of the scrobbles added
AddTimes == {0, Quantum}
\* the id lists MarkScrobbledBatch is called with
BatchArgs == UNION {[1..n -> 1..MaxApiRows] : n \in 0..MaxBatchIds}

\* a new queue database; the clock stands two weeks after the oldest
\* timestamp
InitQueue ==
    /\ now = TwoWeeks
    /\ ticks = 0
    /\ player = [name |-> "nil", rp |-> 0]
    /\ updates = <<>>
    /\ current = EmptyTrackState
    /\ disk = persist(EmptyTrackState)
    /\ g = GInit
    /\ h = HIdle
    /\ c = CIdle
    /\ queue = <<>>
    /\ nextId = 1
    /\ d = DIdle
    /\ acked = {}
    /\ skipped = {}
    /\ crashes = 0
    /\ rule = RuleIdle
    /\ remote = "erratic"
    /\ cycle = CycleNone
    /\ qop = QopNone
    /\ tx = TxNone
    /\ log = LogInit
    /\ net = NetIdle
    /\ fn = FnIdle
    /\ stop = StopNone
    /\ poller = PIdle

NextQueue ==
    \/ ticks < MaxApiTicks /\ Tick
    \/ \E ts \in AddTimes : nextId <= MaxApiRows /\ Q_Add("A", ts)
    \/ \E id \in 1..MaxApiRows : Q_MarkScrobbled(id)
    \/ \E id \in 1..MaxApiRows, errMsg \in ErrorTexts : Q_MarkError(id, errMsg)
    \/ \E limit \in 0..MaxApiRows : Q_GetPending(limit)
    \/ \E maxAge \in CleanupAges : Q_Cleanup(maxAge)
    \/ Q_CleanupOldFailed

\* callers of Add, MarkScrobbled, MarkError, GetPending and the cleanups in
\* any order
SpecQueue == InitQueue /\ [][NextQueue]_vars

NextBatch ==
    \/ \E ts \in AddTimes : nextId <= MaxApiRows /\ Q_Add("A", ts)
    \/ \E id \in 1..MaxApiRows : Q_MarkScrobbled(id)
    \/ \E limit \in 0..MaxApiRows : Q_GetPending(limit)
    \/ \E ids \in BatchArgs : B_Begin(ids)
    \/ B_Exec
    \/ B_Commit
    \/ Crash

\* callers of Add, MarkScrobbled, MarkScrobbledBatch and GetPending in any
\* order, with kills and restarts of the process
SpecBatch == InitQueue /\ [][NextBatch]_vars

(* ----------------------- lastfm: Client.call --------------------------- *)
\* maxRetries := 3
maxRetries == 3

\* the Last.fm error codes a response is drawn from
ApiCodes == {4, 9, 10, 11, 14, 15, 16, 29}

\* what one HTTP request can come to: a response with status ok, an error of
\* httpClient.Do (timeout, connection refused or reset), a 5xx status,
\* another status than 200, or a response with status failed and a code
HttpOutcomes ==
    {[kind |-> k, code |-> 0] : k \in {"ok", "network", "http5xx", "http4xx"}}
        \cup {[kind |-> "api", code |-> n] : n \in ApiCodes}

\* a bug Temporary could have: every API error is retried
Temporary_All(code) == TRUE

\* Error.Temporary
Temporary(code) == code = 11 \/ code = 16

\* shouldRetryNetworkError: the error of httpClient.Do is a *url.Error, which
\* implements net.Error
shouldRetryNetworkError(out) == out.kind = "network"

\* nextBackoff
nextBackoff(cur) == IF cur * 2 > 30 THEN 30 ELSE cur * 2

\* a bug sleep could have: it waits for the timer only
sleep_IgnoresCtx(ctxDone) == TRUE

\* sleep, when it returns: false if the context is done, true when the timer
\* has fired
sleep(ctxDone) == ~ctxDone

\* the error text call returns for the outcome of its last request
CallError(out) ==
    IF out.kind = "ok" THEN ""
    ELSE IF out.kind = "network" THEN "http request failed"
    ELSE IF out.kind = "http5xx" THEN "server error"
    ELSE IF out.kind = "http4xx" THEN "unexpected status code"
    ELSE "lastfm: error"

\* whether call goes round its loop again after this outcome of request i
Retries(out, i) ==
    \/ shouldRetryNetworkError(out) /\ i < maxRetries - 1
    \/ out.kind = "http5xx" /\ i < maxRetries - 1
    \/ out.kind = "api" /\ Temporary(out.code) /\ i < maxRetries - 1

\* call begins: an authenticated method without session key returns
\* ErrNoSessionKey before any request
N_Start(requiresAuth) ==
    /\ net.pc = "idle"
    /\ net' = IF requiresAuth /\ net.sk = ""
              THEN [net EXCEPT !.pc = "done", !.result = "lastfm: session key required"]
              ELSE [net EXCEPT !.pc = "attempt", !.i = 0, !.backoff = 1]
    /\ UNCHANGED <<daemonVarsOf, fn, stop>>

\* one round of the loop: the request is made and answered
N_Attempt(out) ==
    /\ net.pc = "attempt"
    /\ net.i < maxRetries
    /\ net.ctxDone => out.kind = "network"
    /\ net' = IF Retries(out, net.i)
              THEN [net EXCEPT !.pc = "backoff", !.sent = @ + 1,
                               !.outs = Append(@, out)]
              ELSE [net EXCEPT !.pc = "done", !.sent = @ + 1,
                               !.outs = Append(@, out), !.result = CallError(out)]
    /\ UNCHANGED <<daemonVarsOf, fn, stop>>

\* sleep(ctx, backoff) returns
N_Sleep ==
    /\ net.pc = "backoff"
    /\ net' = IF sleep(net.ctxDone)
              THEN [net EXCEPT !.pc = "attempt", !.i = @ + 1,
                               !.slept = @ + net.backoff,
                               !.backoff = nextBackoff(@)]
              ELSE [net EXCEPT !.pc = "done", !.result = "context canceled"]
    /\ UNCHANGED <<daemonVarsOf, fn, stop>>

\* the caller cancels the context of the operation
N_Cancel ==
    /\ net.pc \in {"attempt", "backoff"}
    /\ ~net.ctxDone
    /\ net' = [net EXCEPT !.ctxDone = TRUE]
    /\ UNCHANGED <<daemonVarsOf, fn, stop>>

\* a client with or without session key, about to make one operation
InitCall ==
    /\ now = 0
    /\ ticks = 0
    /\ player = [name |-> "nil", rp |-> 0]
    /\ updates = <<>>
    /\ current = EmptyTrackState
    /\ disk = persist(EmptyTrackState)
    /\ g = GInit
    /\ h = HIdle
    /\ c = CIdle
    /\ queue = <<>>
    /\ nextId = 1
    /\ d = DIdle
    /\ acked = {}
    /\ skipped = {}
    /\ crashes = 0
    /\ rule = RuleIdle
    /\ remote = "erratic"
    /\ cycle = CycleNone
    /\ qop = QopNone
    /\ tx = TxNone
    /\ log = LogInit
    /\ \E sk \in {"", "sk"} : net = [NetIdle EXCEPT !.sk = sk]
    /\ fn = FnIdle
    /\ stop = StopNone
    /\ poller = PIdle

NextCall ==
    \/ \E requiresAuth \in BOOLEAN : N_Start(requiresAuth)
    \/ \E out \in HttpOutcomes : N_Attempt(out)
    \/ N_Sleep
    \/ N_Cancel

\* one operation of the protocol client
SpecCall == InitCall /\ [][NextCall]_vars

(* ------------- lastfm.ScrobbleService and scrobbler.Client ------------- *)
\* MaxBatchSize
MaxBatchSize == 50

\* a bug the clients could have: the session key is never found missing
NoSessionKey_Never(sk) == FALSE

\* s.client.sessionKey == ""
NoSessionKey(sk) == sk = ""

\* Client.call with requiresAuth as the services reach it: without session
\* key ErrNoSessionKey and no request, otherwise one operation carrying the
\* scrobbles, which ends with callErr
Call(sk, scrobbles, callErr) ==
    IF NoSessionKey(sk)
    THEN [err |-> "lastfm: session key required", reqs |-> <<>>]
    ELSE [err |-> callErr, reqs |-> <<scrobbles>>]

\* a bug ScrobbleBatch could have: the whole batch is put in the request
LfmScrobbleBatch_NoTruncate(sk, scrobbles, callErr) ==
    IF NoSessionKey(sk)
    THEN [err |-> "lastfm: session key required for scrobbling", reqs |-> <<>>]
    ELSE IF Len(scrobbles) = 0 THEN [err |-> "", reqs |-> <<>>]
    ELSE Call(sk, scrobbles, callErr)

\* ScrobbleService.ScrobbleBatch
LfmScrobbleBatch(sk, scrobbles, callErr) ==
    IF NoSessionKey(sk)
    THEN [err |-> "lastfm: session key required for scrobbling", reqs |-> <<>>]
    ELSE IF Len(scrobbles) = 0 THEN [err |-> "", reqs |-> <<>>]
    ELSE LET sent == IF Len(scrobbles) > MaxBatchSize
                     THEN SubSeq(scrobbles, 1, MaxBatchSize)
                     ELSE scrobbles
         IN Call(sk, sent, callErr)

\* ScrobbleService.Scrobble
LfmScrobble(sk, scrobbles, callErr) ==
    IF NoSessionKey(sk)
    THEN [err |-> "lastfm: session key required for scrobbling", reqs |-> <<>>]
    ELSE LfmScrobbleBatch(sk, <<scrobbles[1]>>, callErr)

\* ScrobbleService.UpdateNowPlaying
LfmUpdateNowPlaying(sk, scrobbles, callErr) ==
    IF NoSessionKey(sk)
    THEN [err |-> "lastfm: session key required for scrobbling", reqs |-> <<>>]
    ELSE Call(sk, <<scrobbles[1]>>, callErr)

\* a bug scrobbler.Client.ScrobbleBatch could have: a batch of any size is
\* handed on
ClientScrobbleBatch_AnySize(sk, scrobbles, callErr) ==
    LET r == LfmScrobbleBatch(sk, scrobbles, callErr)
    IN IF r.err # ""
       THEN [err |-> "failed to scrobble batch", reqs |-> r.reqs]
       ELSE r

\* scrobbler.Client.ScrobbleBatch
ClientScrobbleBatch(sk, scrobbles, callErr) ==
    IF Len(scrobbles) = 0 THEN [err |-> "", reqs |-> <<>>]
    ELSE IF Len(scrobbles) > 50
    THEN [err |-> "cannot scrobble more than 50 tracks at once", reqs |-> <<>>]
    ELSE LET r == LfmScrobbleBatch(sk, scrobbles, callErr)
         IN IF r.err # ""
            THEN [err |-> "failed to scrobble batch", reqs |-> r.reqs]
            ELSE r

\* the functions applied
FnOps == {"lastfm.ScrobbleBatch", "lastfm.Scrobble", "lastfm.UpdateNowPlaying",
          "scrobbler.ScrobbleBatch"}

\* one application of a client function to its inputs
FnApply ==
    /\ fn.pc = "ready"
    /\ LET r == IF fn.op = "lastfm.ScrobbleBatch"
                THEN LfmScrobbleBatch(fn.sk, fn.batch, fn.callErr)
                ELSE IF fn.op = "lastfm.Scrobble"
                THEN LfmScrobble(fn.sk, fn.batch, fn.callErr)
                ELSE IF fn.op = "lastfm.UpdateNowPlaying"
                THEN LfmUpdateNowPlaying(fn.sk, fn.batch, fn.callErr)
                ELSE ClientScrobbleBatch(fn.sk, fn.batch, fn.callErr)
       IN fn' = [fn EXCEPT !.pc = "done", !.err = r.err, !.reqs = r.reqs]
    /\ UNCHANGED <<daemonVarsOf, net, stop>>

\* a client with or without session key and a batch of scrobbles, numbered
\* in the order they are handed in; Scrobble and UpdateNowPlaying take one
InitFn ==
    /\ now = 0
    /\ ticks = 0
    /\ player = [name |-> "nil", rp |-> 0]
    /\ updates = <<>>
    /\ current = EmptyTrackState
    /\ disk = persist(EmptyTrackState)
    /\ g = GInit
    /\ h = HIdle
    /\ c = CIdle
    /\ queue = <<>>
    /\ nextId = 1
    /\ d = DIdle
    /\ acked = {}
    /\ skipped = {}
    /\ crashes = 0
    /\ rule = RuleIdle
    /\ remote = "erratic"
    /\ cycle = CycleNone
    /\ qop = QopNone
    /\ tx = TxNone
    /\ log = LogInit
    /\ net = NetIdle
    /\ stop = StopNone
    /\ poller = PIdle
    /\ \E op \in FnOps, sk \in {"", "sk"}, n \in 0..MaxBatch,
          callErr \in {"", "lastfm: error"} :
          /\ op \in {"lastfm.Scrobble", "lastfm.UpdateNowPlaying"} => n = 1
          /\ fn = [FnIdle EXCEPT !.pc = "ready", !.op = op, !.sk = sk,
                                 !.batch = [i \in 1..n |-> i], !.callErr = callErr]

NextFn == FnApply

\* the scrobble functions of the two clients applied to a batch
SpecFn == InitFn /\ [][NextFn]_vars

(* ------------------- daemon/state.go: throttled persist ---------------- *)
\* State.persistInterval, seconds: position updates are written at most once
\* per second
persistInterval == 1

\* a State of its own: cur is State.current, file the state file, dirty and
\* last are State.dirty and the time of the last write; op is the method
\* last called and wrote tells whether it wrote the file
StateNew ==
    [pc |-> "state", op |-> "NewState", cur |-> EmptyTrackState,
     file |-> persist(EmptyTrackState), dirty |-> FALSE, last |-> ZeroTime,
     wrote |-> FALSE]

\* State.persist at wall-clock t: the file is replaced and dirty is cleared
writeState(st, t) ==
    [st EXCEPT !.file = persist(st.cur), !.dirty = FALSE, !.last = t, !.wrote = TRUE]

\* a bug throttledPersist could have: a skipped write is not remembered
throttledPersist_Forgets(st, t) ==
    IF t - st.last < persistInterval
    THEN [st EXCEPT !.wrote = FALSE]
    ELSE writeState(st, t)

\* State.throttledPersist at wall-clock t: inside the interval the write is
\* skipped and dirty is set
throttledPersist(st, t) ==
    IF t - st.last < persistInterval
    THEN [st EXCEPT !.dirty = TRUE, !.wrote = FALSE]
    ELSE writeState(st, t)

\* State.Flush at wall-clock t
Flush(st, t) ==
    IF st.dirty THEN writeState(st, t) ELSE [st EXCEPT !.wrote = FALSE]

\* State.SetTrack, MarkScrobbled and Reset write at once; UpdatePosition
\* writes at once when the track changes and throttled when only the
\* position of the same track is updated
T_SetTrack(track) ==
    /\ fn.pc = "state"
    /\ fn' = writeState([fn EXCEPT !.op = "SetTrack", !.cur = SetTrack(track, now)], now)
    /\ UNCHANGED <<daemonVarsOf, net, stop>>

T_UpdatePosition(track) ==
    /\ fn.pc = "state"
    /\ LET st == [fn EXCEPT !.op = "UpdatePosition",
                            !.cur = UpdatePosition(fn.cur, track, now)]
       IN fn' = IF fn.cur.Track = Nil \/ ~isSameTrack(fn.cur.Track, track)
                THEN writeState(st, now)
                ELSE throttledPersist(st, now)
    /\ UNCHANGED <<daemonVarsOf, net, stop>>

T_MarkScrobbled ==
    /\ fn.pc = "state"
    /\ fn.cur.Track # Nil
    /\ fn' = writeState([fn EXCEPT !.op = "MarkScrobbled",
                                   !.cur = MarkScrobbledState(fn.cur)], now)
    /\ UNCHANGED <<daemonVarsOf, net, stop>>

T_Reset ==
    /\ fn.pc = "state"
    /\ fn' = writeState([fn EXCEPT !.op = "Reset", !.cur = ResetState], now)
    /\ UNCHANGED <<daemonVarsOf, net, stop>>

T_Flush ==
    /\ fn.pc = "state"
    /\ fn' = Flush([fn EXCEPT !.op = "Flush"], now)
    /\ UNCHANGED <<daemonVarsOf, net, stop>>

\* the observations handed to the State
Observations ==
    {[name |-> n, st |-> st, dur |-> TrackDuration(n), rp |-> 1] :
        n \in TrackNames, st \in {StatePlaying, StatePaused}}

InitState ==
    /\ now = 0
    /\ ticks = 0
    /\ player = [name |-> "nil", rp |-> 0]
    /\ updates = <<>>
    /\ current = EmptyTrackState
    /\ disk = persist(EmptyTrackState)
    /\ g = GInit
    /\ h = HIdle
    /\ c = CIdle
    /\ queue = <<>>
    /\ nextId = 1
    /\ d = DIdle
    /\ acked = {}
    /\ skipped = {}
    /\ crashes = 0
    /\ rule = RuleIdle
    /\ remote = "erratic"
    /\ cycle = CycleNone
    /\ qop = QopNone
    /\ tx = TxNone
    /\ log = LogInit
    /\ net = NetIdle
    /\ stop = StopNone
    /\ poller = PIdle
    /\ fn = StateNew

NextState ==
    \/ Tick
    \/ \E track \in Observations : T_SetTrack(track)
    \/ \E track \in Observations : T_UpdatePosition(track)
    \/ T_MarkScrobbled
    \/ T_Reset
    \/ T_Flush

\* the methods of a State called in any order as time passes
SpecState == InitState /\ [][NextState]_vars

(* ------------------------ lastfm/signature.go -------------------------- *)
\* strings are sequences of byte values; the keys and values of requests
KeyStrings == {<<1>>, <<1, 1>>, <<1, 2>>, <<2>>}
ValueStrings == {<<>>, <<1>>, <<2, 1>>}
SecretStrings == {<<1>>, <<3>>}

\* s < t for Go strings: bytewise lexicographic
RECURSIVE StringLess(_, _)
StringLess(s, t) ==
    IF t = <<>> THEN FALSE
    ELSE IF s = <<>> THEN TRUE
    ELSE IF s[1] # t[1] THEN s[1] < t[1]
    ELSE StringLess(Tail(s), Tail(t))

\* k put at its place in the sorted sequence of strings
RECURSIVE InsertString(_, _)
InsertString(k, sorted) ==
    IF sorted = <<>> THEN <<k>>
    ELSE IF StringLess(k, sorted[1]) THEN <<k>> \o sorted
    ELSE <<sorted[1]>> \o InsertString(k, Tail(sorted))

\* the strings of keys in ascending order
RECURSIVE Ascending(_)
Ascending(keys) ==
    IF keys = <<>> THEN <<>>
    ELSE InsertString(keys[1], Ascending(Tail(keys)))

\* a bug calculateSignature could have: the keys are left in the order the
\* map yields them
SortStrings_Unsorted(keys) == keys

\* sort.Strings
SortStrings(keys) == Ascending(keys)

\* params[k] of the map whose pairs are yielded in the order of params
MapValue(params, k) ==
    params[CHOOSE i \in DOMAIN params : params[i].k = k].v

\* for _, k := range keys { sigPlain += k + params[k] }
RECURSIVE KeyValuePairs(_, _)
KeyValuePairs(keys, params) ==
    IF keys = <<>> THEN <<>>
    ELSE keys[1] \o MapValue(params, keys[1]) \o KeyValuePairs(Tail(keys), params)

\* the hex MD5 digest of the bytes, kept as an unevaluated function of them
md5hex(bytes) == [md5 |-> bytes]

\* calculateSignature; params: the pairs of the map in the order its range
\* loop yields them
calculateSignature(params, secret) ==
    LET keys == SortStrings([i \in DOMAIN params |-> params[i].k])
        sigPlain == KeyValuePairs(keys, params) \o secret
    IN md5hex(sigPlain)

\* calculateSignature is applied
SigApply ==
    /\ fn.pc = "ready"
    /\ fn.op = "calculateSignature"
    /\ fn' = [fn EXCEPT !.pc = "done",
                        !.sig = calculateSignature(fn.params, fn.secret)]
    /\ UNCHANGED <<daemonVarsOf, net, stop>>

\* the sequences of n pairs with different keys
ParamsOf(n) ==
    {p \in [1..n -> [k : KeyStrings, v : ValueStrings]] :
        \A i, j \in 1..n : p[i].k = p[j].k => i = j}

\* a map of parameters, yielded in some order, and a secret
InitSig ==
    /\ now = 0
    /\ ticks = 0
    /\ player = [name |-> "nil", rp |-> 0]
    /\ updates = <<>>
    /\ current = EmptyTrackState
    /\ disk = persist(EmptyTrackState)
    /\ g = GInit
    /\ h = HIdle
    /\ c = CIdle
    /\ queue = <<>>
    /\ nextId = 1
    /\ d = DIdle
    /\ acked = {}
    /\ skipped = {}
    /\ crashes = 0
    /\ rule = RuleIdle
    /\ remote = "erratic"
    /\ cycle = CycleNone
    /\ qop = QopNone
    /\ tx = TxNone
    /\ log = LogInit
    /\ net = NetIdle
    /\ stop = StopNone
    /\ poller = PIdle
    /\ \E n \in 0..MaxParams : \E params \in ParamsOf(n), secret \in SecretStrings :
          fn = [pc |-> "ready", op |-> "calculateSignature", params |-> params,
                secret |-> secret, sig |-> md5hex(<<>>)]

NextSig == SigApply

\* calculateSignature applied to a map and a secret
SpecSig == InitSig /\ [][NextSig]_vars

(* --------------------------- the offline drain ------------------------- *)
\* the endpoint becomes reachable and from then on answers every request
RemoteReturns ==
    /\ remote = "unreachable"
    /\ remote' = "accepting"
    /\ UNCHANGED <<now, ticks, player, updates, current, disk, g, h, c, queue, nextId,
                   d, acked, skipped, crashes, rule, cycle, qop, tx, log, netVars>>

\* the daemon starts with an empty queue while the endpoint is unreachable
InitOffline ==
    /\ now = 0
    /\ ticks = 0
    /\ player = [name |-> "nil", rp |-> 0]
    /\ updates = <<>>
    /\ current = EmptyTrackState
    /\ disk = persist(EmptyTrackState)
    /\ g = GInit
    /\ h = HIdle
    /\ c = CIdle
    /\ queue = <<>>
    /\ nextId = 1
    /\ d = DIdle
    /\ acked = {}
    /\ skipped = {}
    /\ crashes = 0
    /\ rule = RuleIdle
    /\ remote = "unreachable"
    /\ cycle = CycleNone
    /\ qop = QopNone
    /\ tx = TxNone
    /\ log = LogInit
    /\ net = NetIdle
    /\ fn = FnIdle
    /\ stop = StopNone
    /\ poller = PIdle

\* eligible plays are enqueued at the current instant while the queue
\* processor runs its cycles and the endpoint comes back
NextOffline ==
    \/ Tick
    \/ \E name \in TrackNames : Q_Add(name, now)
    \/ RemoteReturns
    \/ D_Load
    \/ D_Call
    \/ D_Mark

\* processQueue runs a cycle at every tick of its ticker, the call to the
\* endpoint returns and the result is recorded
SpecOffline ==
    /\ InitOffline
    /\ [][NextOffline]_vars
    /\ WF_vars(D_Load) /\ WF_vars(D_Call) /\ WF_vars(D_Mark)

(* --------------------------- specifications ---------------------------- *)
\* a row left pending in the queue database by an earlier run
OldRow(id, ts, err) ==
    [id |-> id, name |-> "A", dur |-> TrackDuration("A"), ts |-> ts,
     scrobbled |-> FALSE, err |-> err, play |-> id, from |-> id, tplay |-> id,
     pstart |-> ts, rp |-> id]

\* the daemon starts with rows an earlier run left pending
InitDrain ==
    /\ now = 0
    /\ ticks = 0
    /\ player = [name |-> "nil", rp |-> 0]
    /\ updates = <<>>
    /\ current = EmptyTrackState
    /\ disk = persist(EmptyTrackState)
    /\ g = GInit
    /\ h = HIdle
    /\ c = CIdle
    /\ d = DIdle
    /\ acked = {}
    /\ skipped = {}
    /\ crashes = 0
    /\ remote = "erratic"
    /\ cycle = CycleNone
    /\ qop = QopNone
    /\ tx = TxNone
    /\ log = LogInit
    /\ net = NetIdle
    /\ fn = FnIdle
    /\ stop = StopNone
    /\ poller = PIdle
    /\ rule = RuleIdle
    /\ \E n \in 0..MaxRows :
          /\ nextId = n + 1
          /\ \E tss \in [1..n -> {0, Quantum}],
                errs \in [1..n -> {NULL, ScrobbleError("failed")}] :
                queue = [i \in 1..n |-> OldRow(i, tss[i], errs[i])]

NextDrain ==
    \/ D_Load
    \/ D_Call
    \/ D_Mark
    \/ Crash

\* the queue processor alone, over a queue of an earlier run
SpecDrain == InitDrain /\ [][NextDrain]_vars

(* ------------------------ daemon.go: shutdown -------------------------- *)
\* Run: the first signal cancels the context of run
S_Cancel ==
    /\ ~stop.cancelled
    /\ stop' = [stop EXCEPT !.cancelled = TRUE]
    /\ UNCHANGED <<daemonVarsOf, net, fn>>

\* checkScrobbleEligibility: the select takes ticker.C and checkAndScrobble
\* begins.  With the context cancelled and a tick pending the select may
\* still take the tick.
S_Check ==
    /\ "checker" \notin stop.exited
    /\ C_GetState

\* processQueue: the select takes ticker.C and processPendingScrobbles begins
S_Drain ==
    /\ ~stop.finalRead
    /\ D_Load

\* processQueue: the select takes ctx.Done(); the final
\* processPendingScrobbles calls GetPending
S_FinalLoad ==
    /\ stop.cancelled
    /\ ~stop.finalRead
    /\ d.pc = "idle"
    /\ LET pending == GetPending(queue, BatchLimit)
       IN d' = IF Len(pending) = 0
               THEN DIdle
               ELSE [pc |-> "call", pending |-> pending, call |-> "none",
                     resp |-> "none"]
    /\ stop' = [stop EXCEPT !.finalRead = TRUE]
    /\ UNCHANGED <<now, ticks, player, updates, current, disk, g, h, c, queue, nextId,
                   acked, skipped, crashes, rule, apiVars, net, fn, poller>>

\* a goroutine of run returns: Poller.Run, handleUpdates and
\* checkScrobbleEligibility when their select takes ctx.Done(), processQueue
\* when the final processPendingScrobbles is over
S_Exit(gr) ==
    /\ stop.cancelled
    /\ gr \notin stop.exited
    /\ gr = "poller" => poller.pc = "select"
    /\ gr = "handler" => h.pc = "idle"
    /\ gr = "checker" => c.pc = "idle"
    /\ gr = "queue" => (stop.finalRead /\ d.pc = "idle")
    /\ stop' = [stop EXCEPT !.exited = @ \cup {gr}]
    /\ UNCHANGED <<daemonVarsOf, net, fn>>

\* the daemon is running, the player plays track A and the handler has
\* applied its first observation; rows of an earlier run may be pending
InitStop ==
    LET track == [name |-> "A", st |-> StatePlaying, dur |-> TrackDuration("A"),
                  rp |-> 1]
    IN /\ now = 0
       /\ ticks = 0
       /\ player = [name |-> "A", rp |-> 1]
       /\ updates = <<>>
       /\ current = SetTrack(track, 0)
       /\ disk = persist(SetTrack(track, 0))
       /\ g = [play |-> 1, lastSt |-> StatePlaying, lastRp |-> 1, played |-> 0,
               rpPlayed |-> 0, start |-> 0]
       /\ h = HIdle
       /\ c = CIdle
       /\ d = DIdle
       /\ acked = {}
       /\ skipped = {}
       /\ crashes = 0
       /\ remote = "erratic"
       /\ cycle = CycleNone
       /\ qop = QopNone
       /\ tx = TxNone
       /\ log = LogInit
       /\ net = NetIdle
       /\ fn = FnIdle
       /\ stop = StopNone
       /\ poller = PIdle
       /\ rule = RuleIdle
       /\ \E n \in 0..1 :
             /\ nextId = n + 1
             /\ queue = [i \in 1..n |-> OldRow(i, 0, NULL)]

NextStop ==
    \/ Tick
    \/ S_Check
    \/ C_GetPlayed
    \/ C_Add
    \/ C_Mark
    \/ S_Drain
    \/ D_Call
    \/ D_Mark
    \/ S_Cancel
    \/ S_FinalLoad
    \/ \E gr \in {"checker", "queue"} : S_Exit(gr)

\* the scrobble checker and the queue processor while run is shut down
SpecStop == InitStop /\ [][NextStop]_vars

(* ----------------- daemon.go: the queue over the weeks ---------------- *)
\* the maxAge Shutdown passes to Cleanup
SevenDays == 7 * 24 * 3600

\* Daemon.Shutdown, called when run has returned: d.queue.Cleanup(ctx,
\* 7*24*time.Hour); the daemon is started again afterwards
Shutdown ==
    /\ d.pc = "idle"
    /\ Q_Cleanup(SevenDays)

\* the daemon runs two weeks and a quantum after the oldest timestamp of the
\* rows earlier runs left pending, failed before or not, and the endpoint
\* fails every request
InitStale ==
    /\ now = TwoWeeks + Quantum
    /\ ticks = 0
    /\ player = [name |-> "nil", rp |-> 0]
    /\ updates = <<>>
    /\ current = EmptyTrackState
    /\ disk = persist(EmptyTrackState)
    /\ g = GInit
    /\ h = HIdle
    /\ c = CIdle
    /\ d = DIdle
    /\ acked = {}
    /\ skipped = {}
    /\ crashes = 0
    /\ remote = "unreachable"
    /\ cycle = CycleNone
    /\ qop = QopNone
    /\ tx = TxNone
    /\ log = LogInit
    /\ net = NetIdle
    /\ fn = FnIdle
    /\ stop = StopNone
    /\ poller = PIdle
    /\ rule = RuleIdle
    /\ \E n \in 1..MaxRows :
          /\ nextId = n + 1
          /\ \E tss \in [1..n -> {0, Quantum, TwoWeeks}],
                errs \in [1..n -> {NULL, ScrobbleError("failed")}] :
                queue = [i \in 1..n |-> OldRow(i, tss[i], errs[i])]

NextStale ==
    \/ Tick
    \/ D_Load
    \/ D_Call
    \/ D_Mark
    \/ Shutdown

\* everything in the daemon that touches rows of the queue, run for ever:
\* the cycles of processQueue, and Shutdown between two runs
SpecStale ==
    /\ InitStale
    /\ [][NextStale]_vars
    /\ WF_vars(Tick) /\ WF_vars(D_Load) /\ WF_vars(D_Call) /\ WF_vars(D_Mark)
    /\ WF_vars(Shutdown)

(* --------------- daemon.go: the queue and a rejected row --------------- *)
\* the daemon starts with rows of tracks A and B pending from an earlier
\* run; the endpoint is reachable and rejects track B for good
InitPoison ==
    /\ now = 0
    /\ ticks = 0
    /\ player = [name |-> "nil", rp |-> 0]
    /\ updates = <<>>
    /\ current = EmptyTrackState
    /\ disk = persist(EmptyTrackState)
    /\ g = GInit
    /\ h = HIdle
    /\ c = CIdle
    /\ d = DIdle
    /\ acked = {}
    /\ skipped = {}
    /\ crashes = 0
    /\ remote = "rejectsB"
    /\ cycle = CycleNone
    /\ qop = QopNone
    /\ tx = TxNone
    /\ log = LogInit
    /\ net = NetIdle
    /\ fn = FnIdle
    /\ stop = StopNone
    /\ poller = PIdle
    /\ rule = RuleIdle
    /\ \E n \in 1..MaxRows :
          /\ nextId = n + 1
          /\ \E tss \in [1..n -> {0, Quantum}], names \in [1..n -> TrackNames] :
                queue = [i \in 1..n |->
                            [OldRow(i, tss[i], NULL) EXCEPT
                                !.name = names[i], !.dur = TrackDuration(names[i])]]

NextPoison ==
    \/ D_Load
    \/ D_Call
    \/ D_Mark

\* processQueue runs a cycle at every tick of its ticker, the call to the
\* endpoint returns and the result is recorded
SpecPoison ==
    /\ InitPoison
    /\ [][NextPoison]_vars
    /\ WF_vars(D_Load) /\ WF_vars(D_Call) /\ WF_vars(D_Mark)

(* ------------------- daemon.go: run, the four goroutines --------------- *)
\* what GetCurrentTrack returns and the player it leaves, for a player that
\* plays track A throughout and may fail to answer: an error, or the track
\* as in PollTrack, a new play when it is first seen
PollResults ==
    LET fresh == player.name # "A"
        rp == IF fresh THEN player.rp + 1 ELSE player.rp
    IN {[update |-> [Track |-> Nil, Err |-> TRUE], player |-> player],
        [update |-> [Track |-> [name |-> "A", st |-> StatePlaying,
                                dur |-> TrackDuration("A"), rp |-> rp],
                     Err |-> FALSE],
         player |-> [name |-> "A", rp |-> rp]]}

\* time.Ticker of Poller.Run: a tick is put in ticker.C unless one waits there
P_Tick ==
    /\ "poller" \notin stop.exited
    /\ ~poller.tick
    /\ poller' = [poller EXCEPT !.tick = TRUE]
    /\ UNCHANGED <<daemonVarsOfRun, net, fn, stop>>

\* Poller.Run calls poll, on start and when its select takes ticker.C;
\* poll: GetCurrentTrack
P_Query ==
    /\ "poller" \notin stop.exited
    /\ poller.pc = "start" \/ (poller.pc = "select" /\ poller.tick)
    /\ \E r \in PollResults :
          /\ player' = r.player
          /\ poller' = [pc |-> "send",
                        tick |-> IF poller.pc = "start" THEN poller.tick ELSE FALSE,
                        pend |-> r.update]
    /\ UNCHANGED <<now, ticks, updates, current, disk, g, h, c, queue, nextId, d,
                   acked, skipped, crashes, rule, apiVars, net, fn, stop>>

\* poll: the select takes the send on updates
P_Send ==
    /\ poller.pc = "send"
    /\ Len(updates) < ChanCap
    /\ updates' = Append(updates, poller.pend)
    /\ poller' = [poller EXCEPT !.pc = "select", !.pend = PIdle.pend]
    /\ UNCHANGED <<now, ticks, player, current, disk, g, h, c, queue, nextId, d,
                   acked, skipped, crashes, rule, apiVars, net, fn, stop>>

\* a bug poll could have: the select of the send has no ctx.Done() case
P_SendCancelled_Ungated ==
    /\ poller.pc = "send"
    /\ FALSE
    /\ UNCHANGED vars

\* poll: the select takes ctx.Done(), the update is dropped
P_SendCancelled ==
    /\ poller.pc = "send"
    /\ stop.cancelled
    /\ poller' = [poller EXCEPT !.pc = "select", !.pend = PIdle.pend]
    /\ UNCHANGED <<daemonVarsOfRun, net, fn, stop>>

\* handleUpdates: the select takes an update
S_Handle ==
    /\ "handler" \notin stop.exited
    /\ H_Update

Goroutines == {"poller", "handler", "checker", "queue"}

\* the daemon starts; rows of an earlier run may be pending
InitRun ==
    /\ now = 0
    /\ ticks = 0
    /\ player = [name |-> "nil", rp |-> 0]
    /\ updates = <<>>
    /\ current = EmptyTrackState
    /\ disk = persist(EmptyTrackState)
    /\ g = GInit
    /\ h = HIdle
    /\ c = CIdle
    /\ d = DIdle
    /\ acked = {}
    /\ skipped = {}
    /\ crashes = 0
    /\ remote = "erratic"
    /\ cycle = CycleNone
    /\ qop = QopNone
    /\ tx = TxNone
    /\ log = LogInit
    /\ net = NetIdle
    /\ fn = FnIdle
    /\ stop = StopNone
    /\ poller = PIdle
    /\ rule = RuleIdle
    /\ \E n \in 0..1 :
          /\ nextId = n + 1
          /\ queue = [i \in 1..n |-> OldRow(i, 0, NULL)]

NextRun ==
    \/ ticks < MaxApiTicks /\ Tick
    \/ P_Tick
    \/ P_Query
    \/ P_Send
    \/ P_SendCancelled
    \/ S_Handle
    \/ H_NowPlaying
    \/ S_Check
    \/ C_GetPlayed
    \/ C_Add
    \/ C_Mark
    \/ S_Drain
    \/ D_Call
    \/ D_Mark
    \/ S_Cancel
    \/ S_FinalLoad
    \/ \E gr \in Goroutines : S_Exit(gr)

\* run: the four goroutines from the start of the daemon to their return
SpecRun == InitRun /\ [][NextRun]_vars

\* the daemon starts with an empty queue; the endpoint answers every request,
\* with status ok or with ignored > 0
InitTerm ==
    /\ now = 0
    /\ ticks = 0
    /\ player = [name |-> "nil", rp |-> 0]
    /\ updates = <<>>
    /\ current = EmptyTrackState
    /\ disk = persist(EmptyTrackState)
    /\ g = GInit
    /\ h = HIdle
    /\ c = CIdle
    /\ d = DIdle
    /\ acked = {}
    /\ skipped = {}
    /\ crashes = 0
    /\ remote = "accepting"
    /\ cycle = CycleNone
    /\ qop = QopNone
    /\ tx = TxNone
    /\ log = LogInit
    /\ net = NetIdle
    /\ fn = FnIdle
    /\ stop = StopNone
    /\ poller = PIdle
    /\ rule = RuleIdle
    /\ nextId = 1
    /\ queue = <<>>

\* run under the scheduling of the runtime: a goroutine that can take a step
\* takes it, every call in progress returns, and a select that finds
\* ctx.Done() ready time and again takes it in the end
SpecTerm ==
    /\ InitTerm
    /\ [][NextRun]_vars
    /\ WF_vars(P_Query \/ P_Send \/ P_SendCancelled)
    /\ WF_vars(H_NowPlaying)
    /\ WF_vars(C_GetPlayed \/ C_Add \/ C_Mark)
    /\ WF_vars(D_Call \/ D_Mark)
    /\ SF_vars(S_FinalLoad)
    /\ \A gr \in Goroutines : SF_vars(S_Exit(gr))

Next ==
    \/ Tick
    \/ PollNoTrack
    \/ \E name \in TrackNames, st \in {StatePlaying, StatePaused, StateStopped},
          fresh \in BOOLEAN : PollTrack(name, st, fresh)
    \/ H_Update
    \/ H_NowPlaying
    \/ C_GetState
    \/ C_GetPlayed
    \/ C_Add
    \/ C_Mark

Spec == Init /\ [][Next]_vars

NextDown ==
    \/ ticks < MaxApiTicks /\ Tick
    \/ PollNoTrack
    \/ \E name \in TrackNames, st \in {StatePlaying, StatePaused, StateStopped},
          fresh \in BOOLEAN : PollTrack(name, st, fresh)
    \/ H_Update
    \/ H_NowPlaying
    \/ C_GetState
    \/ C_GetPlayed
    \/ C_Add
    \/ C_Mark
    \/ Crash
    \/ Downtime

\* the daemon, killed and started again at once or after a while
SpecDown == Init /\ [][NextDown]_vars

NextErr ==
    \/ ticks < MaxApiTicks /\ Tick
    \/ PollError
    \/ PollNoTrack
    \/ \E name \in TrackNames, st \in {StatePlaying, StatePaused, StateStopped},
          fresh \in BOOLEAN : PollTrack(name, st, fresh)
    \/ H_Update
    \/ H_NowPlaying
    \/ C_GetState
    \/ C_GetPlayed
    \/ C_Add
    \/ C_Mark

\* the daemon with a player that may fail to answer the poller
SpecErr == Init /\ [][NextErr]_vars

NextCrash == Next \/ Crash

SpecCrash == Init /\ [][NextCrash]_vars

(* ------------------------------ claims --------------------------------- *)
PlaysOf(q) == {q[i].play : i \in DOMAIN q}
EntriesOf(q, p) == {i \in DOMAIN q : q[i].play = p}
Threshold(track) == ScrobbleThreshold(track.dur)

\* C1: a play (one initialisation of PlayState, until the next track change,
\* stop or reset) has at most one queue entry, and while the checker is
\* between two checks a play that has its entry carries the scrobbled flag
\* or is no longer current, so that the next check enqueues nothing for it
C1_AtMostOneEnqueuePerPlay ==
    /\ \A i, j \in DOMAIN queue : queue[i].play = queue[j].play => i = j
    /\ (c.pc = "idle" /\ current.Track # Nil /\ g.play \in PlaysOf(queue))
          => NothingToCheck(current)

\* C1 witness: the current play has its entry and its flag, the clock has
\* moved on since the enqueue and the checker is ready for its next check
C1_Witness ==
    /\ c.pc = "idle"
    /\ current.Track # Nil
    /\ current.Scrobbled
    /\ \E i \in DOMAIN queue : queue[i].play = g.play /\ queue[i].ts < now

\* C2: the check is atomic with respect to the state handler: every queue
\* entry describes the play whose elapsed time was tested, and the scrobbled
\* flag is only ever carried by a play that has its queue entry
C2_CheckAtomic ==
    /\ \A i \in DOMAIN queue : queue[i].tplay = queue[i].from
    /\ (current.Track # Nil /\ current.Scrobbled) => g.play \in PlaysOf(queue)

C4_TimestampIsPlayStart ==
    \A i \in DOMAIN queue : queue[i].ts = queue[i].pstart

\* C5: the effective play time never exceeds the time during which the play
\* was observed Playing: time observed Paused is not counted
C5_PausedTimeNotCounted ==
    current.Track # Nil => GetPlayedDuration(current, now) <= g.played

\* C6: a play discarded by a track change below its threshold never has a
\* queue entry, and the play the change initialises starts at the current
\* instant with no accumulated time, not paused and not scrobbled
C6_SkippedPlayNeverEnqueued ==
    /\ [](\A i \in DOMAIN queue : queue[i].play \notin skipped)
    /\ [][h'.pc = "nowplaying" /\ h.pc = "idle"
            => current' = NewTrackState(current'.Track, now)]_vars

\* the current play has reached its threshold by the time it was observed
\* Playing, and the check can no longer enqueue it
PlayDueAndBarred ==
    /\ current.Track # Nil
    /\ Threshold(current.Track) >= 0
    /\ g.played >= Threshold(current.Track)
    /\ \/ current.Scrobbled
       \/ ~ShouldScrobble(current.Track.dur, GetPlayedDuration(current, now))

\* C7: a Stopped or absent observation leaves PlayState empty, and when a
\* track that already has an entry for an earlier play is played again after
\* it, the later play that has reached its threshold gets an entry of its
\* own, with another timestamp
C7_StopSeparatesPlays ==
    /\ (h.pc = "idle" /\ g.lastSt = StateStopped) => current.Track = Nil
    /\ (PlayDueAndBarred /\ \E i \in DOMAIN queue :
                               queue[i].name = current.Track.name /\ queue[i].play < g.play)
          => g.play \in PlaysOf(queue)
    /\ \A i, j \in DOMAIN queue :
          queue[i].play # queue[j].play => queue[i].ts # queue[j].ts

\* C8: when the player repeats the track whose play already has its entry
\* (a new play of the player, no Stopped and no other track observed in
\* between) and the new play has been observed Playing for its threshold,
\* the new play gets a queue entry of its own
C8_RepeatScrobbledSeparately ==
    (/\ current.Track # Nil
     /\ g.lastRp # g.play
     /\ \E i \in DOMAIN queue : queue[i].rp = g.play
     /\ Threshold(current.Track) >= 0
     /\ g.rpPlayed >= Threshold(current.Track)
     /\ \/ current.Scrobbled
        \/ ~ShouldScrobble(current.Track.dur, GetPlayedDuration(current, now)))
    => \E i \in DOMAIN queue : queue[i].rp = g.lastRp

\* C9: also across a crash and restart a play has at most one queue entry
C9_NoDoubleCountAcrossCrash ==
    \A p \in PlaysOf(queue) : Cardinality(EntriesOf(queue, p)) <= 1

\* C10: a row is marked submitted only after the remote has acknowledged a
\* request that contained it
C10_SubmittedOnlyAfterAck ==
    \A i \in DOMAIN queue : queue[i].scrobbled => queue[i].id \in acked

\* C10 witness: a drain cycle has marked an acknowledged row submitted while
\* another row, whose request failed, is still pending with its error
C10_Witness ==
    /\ d.pc = "idle"
    /\ \E i \in DOMAIN queue : queue[i].scrobbled /\ queue[i].id \in acked
    /\ \E i \in DOMAIN queue : ~queue[i].scrobbled /\ queue[i].id \notin acked

\* C11: when the remote has answered a scrobble call with status ok and
\* ignored > 0, the rows of that call are marked submitted, so that no later
\* drain cycle loads them again
C11_IgnoredCountsAsSubmitted ==
    (d.pc = "idle" /\ cycle.resp = "ignored")
        => /\ \A i \in DOMAIN queue : queue[i].id \in cycle.ids => queue[i].scrobbled
           /\ Ids(GetPending(queue, 0)) \cap cycle.ids = {}

C13_OfflineDrain ==
    /\ [](remote = "unreachable" => \A i \in DOMAIN queue : ~queue[i].scrobbled)
    /\ [](remote = "accepting" => <>(GetPending(queue, 0) = <<>>))

PendingIds(q) == {q[i].id : i \in {j \in DOMAIN q : ~q[j].scrobbled}}

\* C14: whatever adds, marks and cleanups came before, GetPending(limit)
\* returns rows that are not submitted, each once, in non-decreasing
\* timestamp order; all pending rows when limit is 0, and with a positive
\* limit as many as the limit allows, none of them newer than a pending row
\* left out
C14_PendingOldestFirst ==
    qop.op = "GetPending" =>
        /\ \A k \in DOMAIN qop.rows : ~qop.rows[k].scrobbled
        /\ Ids(qop.rows) \subseteq PendingIds(queue)
        /\ Cardinality(Ids(qop.rows)) = Len(qop.rows)
        /\ \A j, k \in DOMAIN qop.rows : j < k => qop.rows[j].ts <= qop.rows[k].ts
        /\ qop.limit = 0 => Ids(qop.rows) = PendingIds(queue)
        /\ qop.limit > 0 =>
              Len(qop.rows) = Min(qop.limit, Cardinality(PendingIds(queue)))
        /\ \A i \in DOMAIN queue :
              (~queue[i].scrobbled /\ queue[i].id \notin Ids(qop.rows))
                  => \A k \in DOMAIN qop.rows : qop.rows[k].ts <= queue[i].ts

\* C14 witness: of two pending rows the one added last has the older
\* timestamp, and GetPending(1) returned that one
C14_Witness ==
    /\ qop.op = "GetPending"
    /\ qop.limit = 1
    /\ Len(queue) = 2
    /\ ~queue[1].scrobbled /\ ~queue[2].scrobbled
    /\ queue[2].ts < queue[1].ts
    /\ Len(qop.rows) = 1
    /\ qop.rows[1].id = queue[2].id

\* C15: after a kill and restart GetPending(0) returns exactly the rows that
\* were added and not marked submitted, with the track, duration and
\* timestamp they were added with, oldest first
C15_QueueSurvivesRestart ==
    (crashes > 0 /\ qop.op = "GetPending" /\ qop.limit = 0) =>
        /\ Ids(qop.rows) = (1..(nextId - 1)) \ log.marked
        /\ log.atKill.added \ log.marked \subseteq Ids(qop.rows)
        /\ Cardinality(Ids(qop.rows)) = Len(qop.rows)
        /\ \A j, k \in DOMAIN qop.rows : j < k => qop.rows[j].ts <= qop.rows[k].ts
        /\ \A k \in DOMAIN qop.rows : \E i \in DOMAIN queue :
              /\ queue[i].id = qop.rows[k].id
              /\ queue[i].name = qop.rows[k].name
              /\ queue[i].dur = qop.rows[k].dur
              /\ queue[i].ts = qop.rows[k].ts

\* C15 witness: two rows had been added and one of them marked submitted when
\* the process was killed; GetPending(0) after the restart returned the other
C15_Witness ==
    /\ crashes > 0
    /\ Cardinality(log.atKill.added) = 2
    /\ Cardinality(log.atKill.marked) = 1
    /\ qop.op = "GetPending"
    /\ qop.limit = 0
    /\ Ids(qop.rows) = log.atKill.added \ log.atKill.marked

\* C16: MarkError(id, message) succeeds exactly when the id names a row,
\* leaves that row with the message as its error and otherwise as it was,
\* changes no other row and no submitted flag, and GetPending returns the
\* rows it returned before
C16_MarkErrorFrame ==
    [][qop'.op = "MarkError" =>
        /\ DOMAIN queue' = DOMAIN queue
        /\ (qop'.err = "") = (qop'.ids \subseteq Ids(queue))
        /\ \A i \in DOMAIN queue :
              /\ queue'[i].scrobbled = queue[i].scrobbled
              /\ queue[i].id \in qop'.ids
                    => queue'[i] = [queue[i] EXCEPT !.err = qop'.msg]
              /\ queue[i].id \notin qop'.ids => queue'[i] = queue[i]
        /\ Ids(GetPending(queue', 0)) = Ids(GetPending(queue, 0))
        /\ \A k \in DOMAIN GetPending(queue', 0) :
              GetPending(queue', 0)[k].id \in qop'.ids
                  => GetPending(queue', 0)[k].err = qop'.msg]_vars

\* C16 witness: MarkError has recorded a message on a pending row, which is
\* still pending, next to a pending row without error
C16_Witness ==
    /\ qop.op = "MarkError"
    /\ qop.err = ""
    /\ qop.msg # ""
    /\ \E i, j \in DOMAIN queue :
          /\ queue[i].id \in qop.ids
          /\ ~queue[i].scrobbled
          /\ queue[i].err = qop.msg
          /\ ~queue[j].scrobbled
          /\ queue[j].err = NULL

\* C17: MarkScrobbled(id) called again after it succeeded succeeds and
\* leaves the queue as it was; MarkScrobbledBatch(ids) called again after it
\* succeeded leaves the queue as it was, whether the second call commits or
\* not; on every queue, applying either twice gives what applying it once
\* gives
C17_MarkSubmittedIdempotent ==
    /\ [][(qop'.op = "MarkScrobbled" /\ qop'.again)
             => (qop'.err = "" /\ queue' = queue)]_vars
    /\ [][(qop'.op = "MarkScrobbledBatch" /\ qop'.again) => queue' = queue]_vars
    /\ [](\A id \in 1..MaxApiRows :
             MarkScrobbled(MarkScrobbled(queue, id), id) = MarkScrobbled(queue, id))
    /\ [](\A ids \in SUBSET (1..MaxApiRows) :
             MarkScrobbledBatch(MarkScrobbledBatch(queue, ids), ids)
                 = MarkScrobbledBatch(queue, ids))

\* C17 witness: MarkScrobbledBatch was called a second time with the same two
\* ids, executed both statements and committed
C17_Witness ==
    /\ qop.op = "MarkScrobbledBatch"
    /\ qop.again
    /\ qop.err = ""
    /\ qop.done = 2
    /\ Cardinality(qop.ids) = 2
    /\ qop.ids = Ids(queue)
    /\ \A i \in DOMAIN queue : queue[i].scrobbled

\* the rows of q, a sequence without repeated rows
RowsOf(q) == {q[i] : i \in DOMAIN q}

\* C18: Cleanup(maxAge) at time now deletes the rows that are submitted and
\* have a timestamp below now - maxAge and no other row: every pending row
\* and every submitted row with a timestamp at or above the cutoff is kept
\* as it was
C18_CleanupFrame ==
    [][(qop'.op = "Cleanup" /\ now' = now) =>
        /\ qop'.cutoff \in {now - maxAge : maxAge \in CleanupAges}
        /\ RowsOf(queue') =
              {r \in RowsOf(queue) : ~(r.scrobbled /\ r.ts < qop'.cutoff)}
        /\ Len(queue') = Cardinality(RowsOf(queue'))
        /\ qop'.ids = {r.id : r \in {o \in RowsOf(queue) :
                                          o.scrobbled /\ o.ts < qop'.cutoff}}
        /\ PendingIds(queue') = PendingIds(queue)]_vars

\* C18 witness: Cleanup has deleted a submitted row older than the cutoff
\* and kept a pending row that is older than the cutoff too
C18_Witness ==
    /\ qop.op = "Cleanup"
    /\ qop.ids # {}
    /\ \E i \in DOMAIN queue : ~queue[i].scrobbled /\ queue[i].ts < qop.cutoff

\* C19: CleanupOldFailed() at time now deletes the rows that are pending,
\* have a non-empty error recorded and a timestamp below now - 14 days, and
\* no other row: pending rows with no error or an empty one, rows not older
\* than 14 days and submitted rows are kept as they were
C19_CleanupOldFailedFrame ==
    [][(qop'.op = "CleanupOldFailed" /\ now' = now) =>
        /\ qop'.cutoff = now - 14 * 24 * 3600
        /\ RowsOf(queue') =
              {r \in RowsOf(queue) :
                  ~(~r.scrobbled /\ Coalesce(r.err) # "" /\ r.ts < qop'.cutoff)}
        /\ Len(queue') = Cardinality(RowsOf(queue'))]_vars

\* the ids a sequence lists
Listed(ids) == {ids[i] : i \in DOMAIN ids}

\* C20: while the transaction of MarkScrobbledBatch is open the committed
\* rows are those of its beginning and GetPending returns what it would have
\* returned then; when the call returns nil every listed row is submitted,
\* and when it returns an error, or the process is killed, the queue is as
\* it was before the call
C20_BatchAtomic ==
    /\ [](tx.pc = "open" => queue = tx.before)
    /\ [][(tx.pc = "open" /\ qop'.op = "GetPending")
             => qop'.rows = GetPending(tx.before, qop'.limit)]_vars
    /\ [][(tx.pc = "open" /\ tx'.pc = "none") =>
             IF qop'.op = "MarkScrobbledBatch" /\ qop'.err = ""
             THEN /\ queue' = MarkScrobbledBatch(tx.before, Listed(tx.ids))
                  /\ \A i \in DOMAIN queue' :
                        queue'[i].id \in Listed(tx.ids) => queue'[i].scrobbled
             ELSE queue' = tx.before]_vars

\* C20 witness: a batch of two pending rows has executed a statement and
\* then failed; both rows are pending
C20_Witness ==
    /\ qop.op = "MarkScrobbledBatch"
    /\ qop.err # ""
    /\ qop.done >= 1
    /\ Cardinality(qop.ids) = 2
    /\ qop.ids = Ids(queue)
    /\ \A i \in DOMAIN queue : ~queue[i].scrobbled

\* C21: every Add, whichever task calls it, appends one new row and changes
\* no other row; the ids returned are strictly increasing in call order, so
\* each is unique and none is used again, also after Cleanup or
\* CleanupOldFailed have deleted rows; the ids in the table are ids returned
C21_AddIdsUniqueIncreasing ==
    /\ [](\A j, k \in DOMAIN log.returned : j < k => log.returned[j] < log.returned[k])
    /\ [](Ids(queue) \subseteq Listed(log.returned))
    /\ [](Cardinality(Ids(queue)) = Len(queue))
    /\ [][Len(log.returned') > Len(log.returned) =>
             /\ Len(queue') = Len(queue) + 1
             /\ SubSeq(queue', 1, Len(queue)) = queue
             /\ queue'[Len(queue')].id = log.returned'[Len(log.returned')]
             /\ ~queue'[Len(queue')].scrobbled]_vars

\* C21 witness: a row was added, marked submitted and deleted by Cleanup, and
\* the row added afterwards has a larger id than the deleted one
C21_Witness ==
    /\ Len(log.returned) = 2
    /\ log.returned[1] \notin Ids(queue)
    /\ log.returned[2] \in Ids(queue)
    /\ log.returned[2] > log.returned[1]
    /\ qop.op = "Add"
    /\ Len(queue) = 1

\* the outcomes C22 calls transient
Transient(out) ==
    \/ out.kind \in {"network", "http5xx"}
    \/ out.kind = "api" /\ out.code \in {11, 16}

C23_RateLimitRetried ==
    (net.outs # <<>> /\ net.outs[1] = [kind |-> "api", code |-> 29]
        /\ net.pc # "attempt")
            => (net.pc = "backoff" \/ net.ctxDone \/ Len(net.outs) > 1)

\* C24: when sleep returns with the context cancelled, call ends with the
\* error of the context and has made no request since; a backoff that finds
\* the context cancelled never leads to another request
C24_BackoffRespectsContext ==
    /\ [][(net.pc = "backoff" /\ net.ctxDone /\ net' # net) =>
             /\ net'.pc = "done"
             /\ net'.result = "context canceled"
             /\ net'.sent = net.sent]_vars
    /\ [](net.result = "context canceled" => (net.pc = "done" /\ net.ctxDone))

\* C24 witness: the first request failed, the context was cancelled during
\* the backoff and the operation ended after that one request
C24_Witness ==
    /\ net.pc = "done"
    /\ net.result = "context canceled"
    /\ net.sent = 1
    /\ net.slept = 0

\* C25: ScrobbleService.ScrobbleBatch of a client with session key, given
\* more than 50 scrobbles, makes one request, which carries the first 50 in
\* their order and none of the others
C25_BatchTruncatedTo50 ==
    (fn.pc = "done" /\ fn.op = "lastfm.ScrobbleBatch" /\ fn.sk # ""
        /\ Len(fn.batch) > 50) =>
            /\ Len(fn.reqs) = 1
            /\ fn.reqs[1] = SubSeq(fn.batch, 1, 50)
            /\ \A k \in 51..Len(fn.batch) : fn.batch[k] \notin Listed(fn.reqs[1])
            /\ fn.err = fn.callErr

\* C25 witness: 52 scrobbles handed in, 50 sent, the call succeeded
C25_Witness ==
    /\ fn.pc = "done"
    /\ fn.op = "lastfm.ScrobbleBatch"
    /\ Len(fn.batch) = 52
    /\ Len(fn.reqs) = 1
    /\ Len(fn.reqs[1]) = 50
    /\ fn.err = ""

\* C26: scrobbler.Client.ScrobbleBatch makes no request and returns nil for
\* an empty batch, and makes no request and returns an error for a batch of
\* more than 50
C26_ClientBatchBounds ==
    (fn.pc = "done" /\ fn.op = "scrobbler.ScrobbleBatch") =>
        /\ Len(fn.batch) = 0 => (fn.err = "" /\ fn.reqs = <<>>)
        /\ Len(fn.batch) > 50 => (fn.err # "" /\ fn.reqs = <<>>)

\* C26 witness: a client with session key was handed 51 scrobbles and
\* returned an error without a request
C26_Witness ==
    /\ fn.pc = "done"
    /\ fn.op = "scrobbler.ScrobbleBatch"
    /\ fn.sk # ""
    /\ Len(fn.batch) = 51
    /\ fn.err # ""
    /\ fn.reqs = <<>>

\* C27: UpdateNowPlaying, Scrobble and ScrobbleBatch of a client without
\* session key return an error and make no request
C27_SessionKeyRequired ==
    (fn.pc = "done" /\ fn.sk = ""
        /\ fn.op \in {"lastfm.UpdateNowPlaying", "lastfm.Scrobble",
                      "lastfm.ScrobbleBatch"}) =>
            (fn.err # "" /\ fn.reqs = <<>>)

\* C27 witness: UpdateNowPlaying without session key has returned its error
C27_Witness ==
    /\ fn.pc = "done"
    /\ fn.op = "lastfm.UpdateNowPlaying"
    /\ fn.sk = ""
    /\ fn.err = "lastfm: session key required for scrobbling"
    /\ fn.reqs = <<>>

\* C28: the now-playing call never delays the updates that follow the track
\* change: no time passes while an update waits in the channel and the
\* handler is inside UpdateNowPlaying
C28_NowPlayingNeverDelaysUpdates ==
    [][(h.pc = "nowplaying" /\ updates # <<>>) => now' = now]_vars

\* C29: once the final drain of a shutdown has read the pending rows, no
\* row is added to the queue
C29_NoEnqueueAfterFinalRead ==
    [][stop.finalRead => Ids(queue') \subseteq Ids(queue)]_vars

\* the orders in which the pairs of a map can be supplied
Orders(params) ==
    LET n == Len(params)
    IN {[i \in 1..n |-> params[p[i]]] :
            p \in {q \in [1..n -> 1..n] : \A i, j \in 1..n : q[i] = q[j] => i = j}}

\* C30: the signature is the same in whatever order the parameters are
\* supplied, and it is the digest of key and value of each parameter, the
\* keys ascending, followed by the secret
C30_SignatureOrderIndependent ==
    (fn.pc = "done" /\ fn.op = "calculateSignature") =>
        /\ \A o \in Orders(fn.params) : calculateSignature(o, fn.secret) = fn.sig
        /\ \E o \in Orders(fn.params) :
              /\ \A i, j \in DOMAIN o : i < j => StringLess(o[i].k, o[j].k)
              /\ fn.sig = md5hex(KeyValuePairs([i \in DOMAIN o |-> o[i].k], o)
                                     \o fn.secret)

\* C30 witness: three parameters supplied with the keys out of order have
\* been signed
C30_Witness ==
    /\ fn.pc = "done"
    /\ fn.op = "calculateSignature"
    /\ Len(fn.params) = 3
    /\ StringLess(fn.params[3].k, fn.params[1].k)
    /\ fn.params[1].v # fn.params[3].v
    /\ fn.sig = md5hex(fn.params[3].k \o fn.params[3].v \o fn.params[2].k
                           \o fn.params[2].v \o fn.params[1].k \o fn.params[1].v
                           \o fn.secret)

\* C31: between updates, the elapsed play time of the current play is
\* TotalPlayTime + (now - StartTime) when the last observation applied for
\* it was Playing, and TotalPlayTime + (PausedAt - StartTime), with PausedAt
\* set, when it was Paused
C31_ElapsedPlayTime ==
    (current.Track # Nil /\ h.pc = "idle") =>
        /\ g.lastSt = StatePlaying =>
              GetPlayedDuration(current, now)
                  = current.TotalPlayTime + (now - current.StartTime)
        /\ g.lastSt = StatePaused =>
              /\ current.PausedAt # ZeroTime
              /\ GetPlayedDuration(current, now)
                    = current.TotalPlayTime + (current.PausedAt - current.StartTime)

\* C32: after every applied update, PausedAt is set exactly when the last
\* observation applied for the current play was Paused
C32_PausedAtIffPaused ==
    (current.Track # Nil /\ h.pc = "idle") =>
        (current.PausedAt # ZeroTime <=> g.lastSt = StatePaused)

\* C33: the handler's receipt of an update that carries an error leaves
\* PlayState, the state file, the queue and the history of the play as
\* they were
C33_ErrorUpdateChangesNothing ==
    [][(updates # <<>> /\ Head(updates).Err /\ updates' = Tail(updates))
          => (current' = current /\ disk' = disk /\ queue' = queue /\ g' = g
                /\ c' = c)]_vars

\* C33 witness: an error update has been received while a play that was
\* observed Playing is current, and the play is as it was
C33_Witness ==
    /\ h.err
    /\ current.Track # Nil
    /\ g.lastSt = StatePlaying
    /\ g.played > 0
    /\ GetPlayedDuration(current, now) = g.played

\* C34: a full update channel never stalls the poller: whenever the poller
\* is at the send of an update, the channel is full and the handler is busy
\* inside the now-playing call, the context is cancelled (nothing else lets
\* the select of the send return)
C34_FullChannelNeverStallsPoller ==
    (poller.pc = "send" /\ Len(updates) >= ChanCap /\ h.pc = "nowplaying")
        => stop.cancelled

\* C35: a pending row with a recorded failure and a timestamp more than 14
\* days old is eventually removed from the queue
C35_StaleEntryCollected ==
    \A id \in 1..MaxRows :
        (\E i \in DOMAIN queue :
            /\ queue[i].id = id
            /\ ~queue[i].scrobbled
            /\ queue[i].err # NULL
            /\ queue[i].ts < now - TwoWeeks)
        ~> (id \notin Ids(queue))

\* C36: a restart leaves the elapsed play time, the threshold and the
\* eligibility of the current play as they were when the process ended,
\* however long the process was down
C36_RestartKeepsPlayTime ==
    [][crashes' = crashes + 1 =>
          /\ current'.Track = current.Track
          /\ GetPlayedDuration(current', now') = GetPlayedDuration(current, now)
          /\ (current.Track # Nil =>
                 ShouldScrobble(current'.Track.dur, GetPlayedDuration(current', now'))
                   = ShouldScrobble(current.Track.dur, GetPlayedDuration(current, now)))]_vars

C38_RejectedRowBlocksNoOther ==
    \A id \in 1..MaxRows :
        (\E i \in DOMAIN queue :
            queue[i].id = id /\ queue[i].name # "B" /\ ~queue[i].scrobbled)
        ~> (\E i \in DOMAIN queue : queue[i].id = id /\ queue[i].scrobbled)

\* C39: a check whose d.queue.Add fails ends there: nothing is enqueued,
\* PlayState and the state file stay as they are with the scrobbled flag
\* false, and the checker is back where the next tick starts a new check
C39_FailedAddLeavesPlayUnmarked ==
    [][(c.pc = "add" /\ c' # c /\ queue' = queue) =>
          /\ c' = CIdle
          /\ current' = current
          /\ disk' = disk
          /\ ~current'.Scrobbled
          /\ nextId' = nextId]_vars

\* C39 witness: the Add for the current play failed in one check, a later
\* check has enqueued the play and marked it
C39_Witness ==
    /\ c.pc = "idle"
    /\ current.Track # Nil
    /\ current.Scrobbled
    /\ g.play \in log.addFailed
    /\ \E i \in DOMAIN queue : queue[i].play = g.play /\ queue[i].tplay = g.play

\* C40: once the context is cancelled the four goroutines all return;
\* processQueue returns only after its final drain, runs it once and starts
\* no cycle after it; a goroutine that has returned takes no further step
C40_AllTasksTerminate ==
    /\ stop.cancelled ~> (stop.exited = Goroutines)
    /\ []("queue" \in stop.exited => (stop.finalRead /\ d.pc = "idle"))
    /\ [][(stop.finalRead /\ d.pc = "idle") => d' = d]_vars
    /\ [][stop.exited \subseteq stop.exited']_vars
    /\ []("poller" \in stop.exited => poller.pc = "select")

\* C40 witness: the four goroutines have returned, the final drain has had
\* a row submitted, and the update the handler did not take is still in the
\* channel
C40_Witness ==
    /\ stop.exited = Goroutines
    /\ stop.finalRead
    /\ Len(updates) = ChanCap
    /\ cycle.resp = "ok"
    /\ \E i \in DOMAIN queue : queue[i].scrobbled

====
